---- MODULE Spec2Model ----
(***************************************************************************)
(* Model of the multi-domain crawl engine of scripts/crawl3.py:            *)
(* the per-domain ledger (html/, INDEX/, FAILED/ and the shared removed/   *)
(* archive), the in-memory frontier of each DomainCrawler, process_one,    *)
(* discover, refresh_pending and the round-robin loop of crawl_batch.      *)
(*                                                                         *)
(* Spec is crawl_batch as the program runs it on one batch of two domains, *)
(* with the process being killed at any point (also between two ledger     *)
(* writes of one method) and started again on the same ledger.             *)
(*                                                                         *)
(* What is left out: sleeps and prints, and the statistics counters that   *)
(* nothing reads back except a print or a sleep gate (pages_processed,     *)
(* total_new_urls, page_count).  Directory listing order (glob) and set    *)
(* iteration order are taken ascending; no claim checked here reads the    *)
(* order in which a refresh or a link loop enqueues.                       *)
(***************************************************************************)
EXTENDS Integers, Sequences, FiniteSets, TLC

\* ------------------------------------------------------------------ bounds
\* Pages of the first domain's site.
NumUrls == 3

\* Pages of the second domain's site.
NumUrls2 == 2

\* Longest domain list split_into_batches is called with.
MaxDomains == 13

\* Largest max_per_batch split_into_batches is called with.
MaxPerBatchArg == 5

\* Longest domain list main is started with (domains are numbered from 1).
MaxArgs == 5

\* ------------------------------------------------------------- environment
\* batch_domains, the list crawl_batch is given (one batch, two members).
BatchDomains == <<"d1", "d2">>

Domains == {BatchDomains[i] : i \in 1..Len(BatchDomains)}

\* The member slots of a batch (a batch may fill fewer).
Crawlers == 1..Len(BatchDomains)

\* Number of pages of a domain's site.
SiteSize(d) == IF d = "d1" THEN NumUrls ELSE NumUrls2

\* A canonical URL is a number: 10 * (position of its domain) + page number.
DomBase(d) == IF d = "d1" THEN 10 ELSE 20

UrlsOf(d) == {DomBase(d) + n : n \in 1..SiteSize(d)}

AllUrls == UNION {UrlsOf(d) : d \in Domains}

PageNo(url) == url % 10

DomainOfUrl(url) == IF url \div 10 = 1 THEN "d1" ELSE "d2"

\* The page the operator seeds the ledger with before the first run.
SeedUrl(d) == DomBase(d) + 1

NoUrl == 0

\* tab_id = None: no tab.
NoTab == 0

\* The start page of the second domain builds its link to the next page by
\* script: the markup of the page does not hold it.
ScriptedNext(url) == url = SeedUrl("d2")

\* The site: what extract_urls_from_html finds in the HTML of a page (every
\* page links to itself and, in its markup, to the next page) ...
StaticLinks(url) ==
  {u \in UrlsOf(DomainOfUrl(url)) :
     \/ PageNo(u) = PageNo(url)
     \/ PageNo(u) = PageNo(url) + 1 /\ ~ScriptedNext(url)}

\* ... and what _parse_js_links finds in the rendered anchor list only (a
\* script-injected link to the page after the next, and the scripted link
\* to the next page).
JsLinks(url) ==
  {u \in UrlsOf(DomainOfUrl(url)) :
     \/ PageNo(u) = PageNo(url) + 2
     \/ PageNo(u) = PageNo(url) + 1 /\ ScriptedNext(url)}

\* The URLs the binary-extension regex of process_one matches (page 3 is an
\* .exe download, which EXCLUDE_PATTERNS lets through).
IsBinaryUrl(url) == PageNo(url) = 3

\* ------------------------------------------------------------------ hashes
\* url_to_sha: SHA-256 of the URL, modelled as an injective encoding.
url_to_sha(url) == 1000 + ((url * 37) % 101)

ShasOf(d) == {url_to_sha(u) : u \in UrlsOf(d)}

AllShas == {url_to_sha(u) : u \in AllUrls}

\* ------------------------------------------------------------------- files
\* A file of html/: its size and the URL of its provenance comment.
NoFile == [size |-> -1, url |-> NoUrl]

EmptyFile == [size |-> 0, url |-> NoUrl]

\* "<!-- URL: " + url + " -->\n" is 15 characters plus the URL.
UrlLen(url) == 22

ProvenanceLen(url) == 15 + UrlLen(url)

\* A record of FAILED/: url|reason|timestamp (the timestamp is not modelled).
NoRecord == [url |-> NoUrl, reason |-> "none"]

\* ---------------------------------------------------------------- renderer
\* What the renderer gives back for one fetch: an exception, or HTML of some
\* length whose <title> contains some of the classifier's patterns.
HtmlLens == {0, 500, 501}

Titles == {{}, {"404"}, {"429", "500"}}

\* at names the renderer call that raised: navigate, the link query and
\* get_html raise into the outer except of process_one, the readyState poll
\* into the inner one, which swallows it.
Responses ==
  {[raised |-> TRUE, at |-> a, len |-> 0, title |-> {}] : a \in {"navigate", "links", "get_html"}}
    \cup {[raised |-> FALSE, at |-> a, len |-> n, title |-> t] :
            a \in {"none", "poll"}, n \in HtmlLens, t \in Titles}

\* ------------------------------------------------------------------- state
VARIABLES
  html_dir,      \* [domain -> [sha -> file]]       studies/<domain>/300/html
  index_dir,     \* [domain -> [sha -> url]]        studies/<domain>/300/INDEX
  failed_dir,    \* [domain -> [sha -> record]]     studies/<domain>/300/FAILED
  removed_dir,   \* set of sha                      removed/ (shared archive)
  pending,       \* [crawler -> Seq(<<sha, url>>)]  DomainCrawler.pending
  pending_shas,  \* [crawler -> set of sha]         DomainCrawler.pending_shas
  total_ok,      \* [crawler -> Nat]
  total_errors,  \* [crawler -> Nat]
  active,        \* [crawler -> BOOLEAN]
  pc,            \* where crawl_batch stands
  ci,            \* loop index of crawl_batch's for loops
  progress,      \* crawl_batch's local flag
  reg_calls,     \* [domain -> set of url]: register_url has returned for it
  mark_returned, \* [domain -> set of sha]: mark_failed has returned for it
  fetch_err,     \* [crawler -> set of sha]: last fetch of this run raised
  pass_moved,    \* a page was downloaded or marked Failed in the current pass
  turns,         \* [member -> [member -> process_one calls since the first one's last call]]
  at_start,      \* [domain -> set of sha]: Pending when this run was started
  lastOp,        \* the call made by the last step, and what it returned
  batch_domains, \* crawl_batch's batch_domains
  precreated_tabs, \* [domain -> tab]: crawl_batch's precreated_tabs (NoTab: absent)
  crawlers,      \* crawl_batch's crawlers: the member slots that got a tab
  tab_id,        \* [crawler -> tab]: DomainCrawler.tab_id
  closed_tabs,   \* the tabs close_tab_by_id was called for
  discovered,    \* the crawlers discover and refresh_pending were run for
  renderer_log,  \* [url -> Seq of answers]: the navigate calls of this run
  fn_in,         \* the arguments of a function called on its own
  fn_out,        \* what it returned
  main_domains,  \* main: domains, the domains of the command line
  main_pc,       \* where main stands
  main_i,        \* main: loop index
  main_tabs,     \* main: precreated_tabs, [domain -> tab]
  threads,       \* [batch -> the state of its thread in crawl_batch]
  site_work,     \* [domain -> "pending" | "done"]: its one page in its ledger
  tab_requests,  \* the tab allocation requests made: by whom, and when
  drivers,       \* [domain -> set of batch]: the threads that worked its ledger
  in_progress,   \* [batch -> set of member]: process_one calls under way
  all_results,   \* [slot -> the writes made to it: by which thread, what]
  clock          \* datetime.now(), in seconds

ledgerVars == <<html_dir, index_dir, failed_dir, removed_dir>>

memoryVars == <<pending, pending_shas, total_ok, total_errors, active>>

controlVars == <<pc, ci, progress>>

historyVars == <<reg_calls, mark_returned, fetch_err, pass_moved, turns, at_start, lastOp>>

batchVars == <<batch_domains, precreated_tabs, crawlers, tab_id, closed_tabs,
               discovered, renderer_log>>

fnVars == <<fn_in, fn_out>>

mainVars == <<main_domains, main_pc, main_i, main_tabs, threads, site_work, tab_requests,
              drivers, in_progress, all_results>>

vars == <<ledgerVars, memoryVars, controlVars, historyVars, batchVars, fnVars, mainVars,
          clock>>

\* The domain of a member slot.
Dom(c) == batch_domains[c]

\* ------------------------------------------------- one crawler's view (self)
\* The state one DomainCrawler method reads and writes, as a record.
Self(c) ==
  [html |-> html_dir[Dom(c)], index |-> index_dir[Dom(c)],
   failed |-> failed_dir[Dom(c)], removed |-> removed_dir,
   pending |-> pending[c], shas |-> pending_shas[c],
   ok |-> total_ok[c], err |-> total_errors[c],
   marked |-> mark_returned[Dom(c)], regd |-> reg_calls[Dom(c)], calls |-> {}]

\* The variables after crawler c's method left its state as S.
Commit(c, S) ==
  /\ html_dir' = [html_dir EXCEPT ![Dom(c)] = S.html]
  /\ index_dir' = [index_dir EXCEPT ![Dom(c)] = S.index]
  /\ failed_dir' = [failed_dir EXCEPT ![Dom(c)] = S.failed]
  /\ removed_dir' = S.removed
  /\ pending' = [pending EXCEPT ![c] = S.pending]
  /\ pending_shas' = [pending_shas EXCEPT ![c] = S.shas]
  /\ total_ok' = [total_ok EXCEPT ![c] = S.ok]
  /\ total_errors' = [total_errors EXCEPT ![c] = S.err]
  /\ mark_returned' = [mark_returned EXCEPT ![Dom(c)] = S.marked]
  /\ reg_calls' = [reg_calls EXCEPT ![Dom(c)] = S.regd]

\* ------------------------------------------------------------- FILE STATE
touch_file(S, sha) ==
  IF S.html[sha] = NoFile THEN [S EXCEPT !.html[sha] = EmptyFile] ELSE S

\* is_downloaded with a threshold no stored page reaches
is_downloaded_high_threshold(S, sha) ==
  S.html[sha] # NoFile /\ S.html[sha].size > 100000

is_downloaded(S, sha) == S.html[sha] # NoFile /\ S.html[sha].size > 100

is_failed(S, sha) == S.failed[sha] # NoRecord

\* mark_failed, first half: (self.failed_dir / sha).write_text(...)
write_failure(S, sha, url, reason) ==
  [S EXCEPT !.failed[sha] = [url |-> url, reason |-> reason]]

\* mark_failed, second half: the zero-size placeholder is moved to removed/
archive_placeholder(S, sha) ==
  IF S.html[sha] # NoFile /\ S.html[sha].size = 0
  THEN [S EXCEPT !.html[sha] = NoFile, !.removed = @ \cup {sha}]
  ELSE S

\* mark_failed that leaves the placeholder in html/
mark_failed_no_archive(S, sha, url, reason) ==
  [write_failure(S, sha, url, reason) EXCEPT !.marked = @ \cup {sha}]

\* (variant: the Index entry goes to the archive with the placeholder)
mark_failed_unindexing(S, sha, url, reason) ==
  LET S1 == archive_placeholder(write_failure(S, sha, url, reason), sha)
  IN [S1 EXCEPT !.marked = @ \cup {sha}, !.index[sha] = NoUrl]

\* (marked records, for the checks, that mark_failed returned for sha)
mark_failed(S, sha, url, reason) ==
  LET S1 == archive_placeholder(write_failure(S, sha, url, reason), sha)
  IN [S1 EXCEPT !.marked = @ \cup {sha}]

\* index_file.write_text(url) unless the Index entry exists
write_index(S, sha, url) ==
  IF S.index[sha] = NoUrl THEN [S EXCEPT !.index[sha] = url] ELSE S

\* register_url that returns True whenever the hash is not Downloaded or
\* Failed (what register_url of scripts/crawl.py does)
register_url_always_true(S, url) ==
  LET sha == url_to_sha(url)
  IN IF is_downloaded(S, sha) \/ is_failed(S, sha)
     THEN [st |-> S, ret |-> FALSE]
     ELSE [st |-> write_index(touch_file(S, sha), sha, url), ret |-> TRUE]

\* register_url without its is_failed test
register_url_no_failed_check(S, url) ==
  LET sha == url_to_sha(url)
  IN IF is_downloaded(S, sha)
     THEN [st |-> S, ret |-> FALSE]
     ELSE [st |-> write_index(touch_file(S, sha), sha, url),
           ret |-> touch_file(S, sha).index[sha] = NoUrl]

\* (variant: no test of the ledger, and the placeholder is written whatever
\* html/ holds)
register_url_truncating(S, url) ==
  LET sha == url_to_sha(url)
  IN [st |-> write_index([S EXCEPT !.html[sha] = EmptyFile], sha, url),
      ret |-> S.index[sha] = NoUrl]

register_url(S, url) ==
  LET sha == url_to_sha(url)
  IN IF is_downloaded(S, sha) \/ is_failed(S, sha)
     THEN [st |-> S, ret |-> FALSE]
     ELSE [st |-> write_index(touch_file(S, sha), sha, url),
           ret |-> touch_file(S, sha).index[sha] = NoUrl]

\* register_and_queue that does not add the hash to pending_shas
register_and_queue_unrecorded(S, url) ==
  LET sha == url_to_sha(url)
  IN IF is_downloaded(S, sha) \/ is_failed(S, sha) \/ sha \in S.shas
     THEN [st |-> S, ret |-> FALSE]
     ELSE [st |-> [write_index(touch_file(S, sha), sha, url)
                     EXCEPT !.pending = Append(@, <<sha, url>>)],
           ret |-> TRUE]

\* register_and_queue that puts the new entry at the head of pending
register_and_queue_at_head(S, url) ==
  LET sha == url_to_sha(url)
  IN IF is_downloaded(S, sha) \/ is_failed(S, sha) \/ sha \in S.shas
     THEN [st |-> S, ret |-> FALSE]
     ELSE [st |-> [write_index(touch_file(S, sha), sha, url)
                     EXCEPT !.pending = <<<<sha, url>>>> \o @,
                            !.shas = @ \cup {sha}],
           ret |-> TRUE]

register_and_queue(S, url) ==
  LET sha == url_to_sha(url)
  IN IF is_downloaded(S, sha) \/ is_failed(S, sha) \/ sha \in S.shas
     THEN [st |-> S, ret |-> FALSE]
     ELSE [st |-> [write_index(touch_file(S, sha), sha, url)
                     EXCEPT !.pending = Append(@, <<sha, url>>),
                            !.shas = @ \cup {sha}],
           ret |-> TRUE]

\* The state of a hash in a domain's ledger, read as is_failed and
\* is_downloaded read it: a Failure record marks Failed whatever html/ holds.
state_of(S, sha) ==
  IF is_failed(S, sha) THEN "Failed"
  ELSE IF is_downloaded(S, sha) THEN "Downloaded"
  ELSE IF S.html[sha] = NoFile THEN "Unknown"
  ELSE IF S.html[sha].size = 0 THEN "Pending"
  ELSE "Partial"

\* One register_url call as the checks see it: its argument, the state and
\* Index entry of the hash before it, whether it is the first call for the
\* URL, what it returned, whether it changed the ledger, and whether both the
\* Index entry and the zero-size sentinel exist after it.
RegCall(S, r, url) ==
  LET sha == url_to_sha(url)
  IN [url |-> url, pre |-> state_of(S, sha), idx |-> S.index[sha] # NoUrl,
      first |-> url \notin S.regd, ret |-> r.ret,
      changed |-> <<r.st.html, r.st.index, r.st.failed, r.st.removed>>
                    # <<S.html, S.index, S.failed, S.removed>>,
      ensured |-> r.st.index[sha] = url /\ r.st.html[sha] = EmptyFile]

\* -------------------------------------------------------- QUEUE MANAGEMENT
Least(set) == CHOOSE x \in set : \A y \in set : x <= y

\* refresh_pending that takes every file of html/, whatever its size
RECURSIVE scan_any_size(_, _)
scan_any_size(S, files) ==
  IF files = {} THEN S
  ELSE LET sha == Least(files)
           queued == /\ S.html[sha] # NoFile
                     /\ ~is_failed(S, sha)
                     /\ S.index[sha] # NoUrl
           S1 == IF queued
                 THEN [S EXCEPT !.pending = Append(@, <<sha, S.index[sha]>>),
                                !.shas = @ \cup {sha}]
                 ELSE S
       IN scan_any_size(S1, files \ {sha})

\* refresh_pending without its is_failed test
RECURSIVE scan_empty_no_failed_check(_, _)
scan_empty_no_failed_check(S, files) ==
  IF files = {} THEN S
  ELSE LET sha == Least(files)
           queued == /\ S.html[sha] # NoFile
                     /\ S.html[sha].size = 0
                     /\ S.index[sha] # NoUrl
           S1 == IF queued
                 THEN [S EXCEPT !.pending = Append(@, <<sha, S.index[sha]>>),
                                !.shas = @ \cup {sha}]
                 ELSE S
       IN scan_empty_no_failed_check(S1, files \ {sha})

\* the loop body of refresh_pending over the files of html/
RECURSIVE scan_empty(_, _)
scan_empty(S, files) ==
  IF files = {} THEN S
  ELSE LET sha == Least(files)
           queued == /\ S.html[sha] # NoFile
                     /\ S.html[sha].size = 0
                     /\ ~is_failed(S, sha)
                     /\ S.index[sha] # NoUrl
           S1 == IF queued
                 THEN [S EXCEPT !.pending = Append(@, <<sha, S.index[sha]>>),
                                !.shas = @ \cup {sha}]
                 ELSE S
       IN scan_empty(S1, files \ {sha})

refresh_pending(S) ==
  scan_empty([S EXCEPT !.pending = <<>>, !.shas = {}], DOMAIN S.html)

\* has_pending that overlooks a frontier of one entry
has_pending_more_than_one(c) == active[c] /\ Len(pending[c]) > 1

has_pending(c) == active[c] /\ Len(pending[c]) > 0

\* --------------------------------------------------------------- DISCOVERY
\* for url in new_urls: if self.register_url(url): discovered += 1
\* (regd and calls record, for the checks, each call and what it returned)
RECURSIVE register_all(_, _, _)
register_all(S, urls, n) ==
  IF urls = {} THEN [st |-> S, n |-> n]
  ELSE LET url == Least(urls)
           r == register_url(S, url)
           call == RegCall(S, r, url)
           S1 == [r.st EXCEPT !.regd = @ \cup {url}, !.calls = @ \cup {call}]
       IN register_all(S1, urls \ {url}, IF r.ret THEN n + 1 ELSE n)

\* the Downloaded files discover reads, listed before its loop starts
downloaded_files(S) ==
  {sha \in DOMAIN S.html : S.html[sha] # NoFile /\ S.html[sha].size > 100}

RECURSIVE discover_files(_, _, _)
discover_files(S, files, n) ==
  IF files = {} THEN [st |-> S, n |-> n]
  ELSE LET sha == Least(files)
           base_url == S.html[sha].url
           r == register_all(S, StaticLinks(base_url), n)
       IN discover_files(r.st, files \ {sha}, r.n)

discover(S) == discover_files(S, downloaded_files(S), 0)

\* ---------------------------------------------------- CORE: PROCESS ONE PAGE
\* The decision table of process_one, in its order.
ErrorTable ==
  << [code |-> "404_not_found", patterns |-> {"404", "not found"}],
     [code |-> "403_forbidden", patterns |-> {"403", "forbidden"}],
     [code |-> "429_rate_limited", patterns |-> {"429", "too many requests"}],
     [code |-> "500_server_error", patterns |-> {"500", "internal server error"}],
     [code |-> "502_bad_gateway", patterns |-> {"502", "bad gateway"}],
     [code |-> "503_unavailable", patterns |-> {"503", "service unavailable"}] >>

\* A title is the set of patterns it contains; the first matching row wins.
RECURSIVE first_match(_, _)
first_match(title, i) ==
  IF i > Len(ErrorTable) THEN "none"
  ELSE IF ErrorTable[i].patterns \cap title # {} THEN ErrorTable[i].code
  ELSE first_match(title, i + 1)

error_reason(title) == first_match(title, 1)

\* for new_url in all_urls: self.register_and_queue(new_url)
RECURSIVE queue_all(_, _)
queue_all(S, urls) ==
  IF urls = {} THEN S
  ELSE LET url == Least(urls)
       IN queue_all(register_and_queue(S, url).st, urls \ {url})

\* (variant: the HTML is written as it came, without the comment line)
write_html_without_provenance(S, sha, url, len) ==
  [S EXCEPT !.html[sha] = [size |-> len, url |-> NoUrl]]

\* html_file.write_text(f"<!-- URL: {url} -->\n{html}")
write_html(S, sha, url, len) ==
  [S EXCEPT !.html[sha] = [size |-> ProvenanceLen(url) + len, url |-> url]]

\* process_one without the except of its try block
try_block_without_except(resp) ==
  [len |-> IF resp.raised THEN 0 ELSE resp.len, bridge_error |-> FALSE,
   uncaught |-> resp.raised]

\* The try block of process_one: what it leaves in html and bridge_error,
\* and whether an exception of the renderer leaves process_one.
try_block(resp) ==
  [len |-> IF resp.raised THEN 0 ELSE resp.len, bridge_error |-> resp.raised,
   uncaught |-> FALSE]

\* process_one without its bridge_error branch: an exception ends as an
\* empty response
classify_without_bridge_error(S, sha, url, resp) ==
  LET len == IF resp.raised THEN 0 ELSE resp.len
  IN IF len > 500
     THEN IF error_reason(resp.title) # "none"
          THEN [st |-> [mark_failed(S, sha, url, error_reason(resp.title))
                          EXCEPT !.err = @ + 1],
                out |-> error_reason(resp.title)]
          ELSE [st |-> [queue_all(write_html(S, sha, url, len),
                                  StaticLinks(url) \cup JsLinks(url))
                          EXCEPT !.ok = @ + 1],
                out |-> "ok"]
     ELSE [st |-> [mark_failed(S, sha, url, "empty_response") EXCEPT !.err = @ + 1],
           out |-> IF resp.raised THEN "bridge_error" ELSE "empty_response"]

\* process_one that treats short HTML as it treats a transport error
classify_empty_as_transport_error(S, sha, url, resp) ==
  LET len == IF resp.raised THEN 0 ELSE resp.len
  IN IF len > 500
     THEN IF error_reason(resp.title) # "none"
          THEN [st |-> [mark_failed(S, sha, url, error_reason(resp.title))
                          EXCEPT !.err = @ + 1],
                out |-> error_reason(resp.title)]
          ELSE [st |-> [queue_all(write_html(S, sha, url, len),
                                  StaticLinks(url) \cup JsLinks(url))
                          EXCEPT !.ok = @ + 1],
                out |-> "ok"]
     ELSE [st |-> S, out |-> IF resp.raised THEN "bridge_error" ELSE "empty_response"]

\* process_one from the renderer's answer on: html is "" when a call raised.
classify_and_store(S, sha, url, resp) ==
  LET len == IF resp.raised THEN 0 ELSE resp.len
  IN IF len > 500
     THEN IF error_reason(resp.title) # "none"
          THEN [st |-> [mark_failed(S, sha, url, error_reason(resp.title))
                          EXCEPT !.err = @ + 1],
                out |-> error_reason(resp.title)]
          ELSE [st |-> [queue_all(write_html(S, sha, url, len),
                                  StaticLinks(url) \cup JsLinks(url))
                          EXCEPT !.ok = @ + 1],
                out |-> "ok"]
     ELSE IF resp.raised
          THEN [st |-> S, out |-> "bridge_error"]
          ELSE [st |-> [mark_failed(S, sha, url, "empty_response")
                          EXCEPT !.err = @ + 1],
                out |-> "empty_response"]

\* (variant: the page is requested before the extension is looked at)
fetch_then_skip_binary(S, sha, url) ==
  [st |-> mark_failed(S, sha, url, "skipped_binary"), ret |-> TRUE,
   out |-> "skipped_binary", sha |-> sha, url |-> url, fetched |-> TRUE,
   uncaught |-> FALSE]

\* if re.search(binary extensions, url): mark_failed(sha, url,
\* "skipped_binary"); return True -- before the try block, so no renderer call
skip_binary(S, sha, url) ==
  [st |-> mark_failed(S, sha, url, "skipped_binary"), ret |-> TRUE,
   out |-> "skipped_binary", sha |-> sha, url |-> url, fetched |-> FALSE,
   uncaught |-> FALSE]

\* process_one: st is the crawler afterwards, ret what it returns, out what
\* happened to the popped entry, fetched whether navigate was called.
process_one(S, resp) ==
  IF S.pending = <<>>
  THEN [st |-> S, ret |-> FALSE, out |-> "empty_queue", sha |-> 0, url |-> NoUrl,
        fetched |-> FALSE, uncaught |-> FALSE]
  ELSE LET sha == Head(S.pending)[1]
           url == Head(S.pending)[2]
           S1 == [S EXCEPT !.pending = Tail(@), !.shas = @ \ {sha}]
       IN IF is_failed(S1, sha) \/ is_downloaded(S1, sha)
          THEN [st |-> S1, ret |-> TRUE, out |-> "stale", sha |-> sha, url |-> url,
                fetched |-> FALSE, uncaught |-> FALSE]
          ELSE IF IsBinaryUrl(url)
          THEN skip_binary(S1, sha, url)
          ELSE IF try_block(resp).uncaught
          THEN [st |-> S1, ret |-> FALSE, out |-> "exception", sha |-> sha, url |-> url,
                fetched |-> TRUE, uncaught |-> TRUE]
          ELSE [st |-> classify_and_store(S1, sha, url, resp).st, ret |-> TRUE,
                out |-> classify_and_store(S1, sha, url, resp).out,
                sha |-> sha, url |-> url, fetched |-> TRUE, uncaught |-> FALSE]

\* ------------------------------------------------------------ ledger states
\* The same reading of the ledger on the variables, by the data model:
\* a Failure record is Failed, more than 100 bytes is Downloaded, zero bytes
\* is the Pending sentinel.
StateOf(d, sha) ==
  IF failed_dir[d][sha] # NoRecord THEN "Failed"
  ELSE IF html_dir[d][sha].size > 100 THEN "Downloaded"
  ELSE IF html_dir[d][sha].size = 0 THEN "Pending"
  ELSE IF html_dir[d][sha] = NoFile THEN "Unknown"
  ELSE "Partial"

InFrontier(c, sha) == \E i \in 1..Len(pending[c]) : pending[c][i][1] = sha

Fetched(out) == out \notin {"-", "empty_queue", "stale", "skipped_binary"}

\* What a step did: the method, the crawler, its argument, the ledger state
\* and Index entry of the argument's hash before the call, and the result
\* (calls: the register_url calls of a discovery; raised_at: the renderer
\* call that raised, where the log is kept).
Op(op, c, url, pre, idx, ret, out) ==
  [op |-> op, c |-> c, url |-> url, pre |-> pre, idx |-> idx, ret |-> ret, out |-> out,
   calls |-> {}, raised_at |-> "-"]

PlainOp(op, c) == Op(op, c, NoUrl, "-", FALSE, FALSE, "-")

\* ------------------------------------------------------------ construction
\* DomainCrawler.__init__: an empty frontier, zeroed counters; crawl_batch has
\* discovered nothing and closed nothing yet.
\* No member has had a turn.
NoTurns == [c \in Crawlers |-> [m \in Crawlers |-> 0]]

\* Member c has its turn (one process_one): its own count starts again from
\* this call, and every member that has had a turn counts one more call of c
\* since its own last call (turns[x][x] = 1: x has had a turn; more than two
\* calls are counted as two).
TurnOf(c) ==
  [x \in Crawlers |->
     IF x = c THEN [m \in Crawlers |-> IF m = c THEN 1 ELSE 0]
     ELSE IF turns[x][x] = 1
     THEN [turns[x] EXCEPT ![c] = IF @ < 2 THEN @ + 1 ELSE @]
     ELSE turns[x]]

FreshMemory ==
  /\ pending' = [c \in Crawlers |-> <<>>]
  /\ pending_shas' = [c \in Crawlers |-> {}]
  /\ total_ok' = [c \in Crawlers |-> 0]
  /\ total_errors' = [c \in Crawlers |-> 0]
  /\ active' = [c \in Crawlers |-> TRUE]
  /\ fetch_err' = [c \in Crawlers |-> {}]
  /\ pass_moved' = FALSE
  /\ turns' = NoTurns
  /\ progress' = FALSE
  /\ discovered' = {}
  /\ closed_tabs' = {}

\* The ledger the operator hands over: each domain's start page registered.
InitLedger ==
  /\ html_dir = [d \in Domains |-> [sha \in ShasOf(d) |->
                   IF sha = url_to_sha(SeedUrl(d)) THEN EmptyFile ELSE NoFile]]
  /\ index_dir = [d \in Domains |-> [sha \in ShasOf(d) |->
                   IF sha = url_to_sha(SeedUrl(d)) THEN SeedUrl(d) ELSE NoUrl]]
  /\ failed_dir = [d \in Domains |-> [sha \in ShasOf(d) |-> NoRecord]]
  /\ removed_dir = {}

InitMemory ==
  /\ pending = [c \in Crawlers |-> <<>>]
  /\ pending_shas = [c \in Crawlers |-> {}]
  /\ total_ok = [c \in Crawlers |-> 0]
  /\ total_errors = [c \in Crawlers |-> 0]
  /\ active = [c \in Crawlers |-> TRUE]
  /\ fetch_err = [c \in Crawlers |-> {}]
  /\ pass_moved = FALSE
  /\ turns = NoTurns
  /\ progress = FALSE
  /\ reg_calls = [d \in Domains |-> {}]
  /\ mark_returned = [d \in Domains |-> {}]
  /\ discovered = {}
  /\ closed_tabs = {}
  /\ renderer_log = [url \in AllUrls |-> <<>>]

\* No function is being called on its own.
NoCall ==
  /\ fn_in = <<>>
  /\ fn_out = <<>>

\* main is not running.
NoMain ==
  /\ main_domains = <<>>
  /\ main_pc = "idle"
  /\ main_i = 1
  /\ main_tabs = <<>>
  /\ threads = <<>>
  /\ site_work = <<>>
  /\ tab_requests = {}
  /\ drivers = <<>>
  /\ in_progress = <<>>
  /\ all_results = <<>>

\* The tab main pre-created for a domain.
MainTab(d) == 100 + DomBase(d)

\* Both members of the batch were given the tab main pre-created for them.
InitCrawlers ==
  /\ batch_domains = BatchDomains
  /\ precreated_tabs = [d \in Domains |-> MainTab(d)]
  /\ crawlers = <<1, 2>>
  /\ tab_id = [c \in Crawlers |-> MainTab(BatchDomains[c])]

\* crawl_batch has built its crawlers and is about to run discovery.
Init ==
  /\ clock = 0
  /\ InitLedger
  /\ InitMemory
  /\ InitCrawlers
  /\ NoCall
  /\ NoMain
  /\ pc = "discover"
  /\ ci = 1
  /\ at_start = [d \in Domains |-> {sha \in ShasOf(d) : StateOf(d, sha) = "Pending"}]
  /\ lastOp = PlainOp("construct", 0)

\* ------------------------------------------------------------- crawl_batch
NumCrawlers == Len(crawlers)

InCrawlers(c) == \E i \in 1..Len(crawlers) : crawlers[i] = c

\* setup_tab: the tab it leaves in self.tab_id (a mapped tab that is still
\* valid, a tab create_tab opened, or none).
setup_tab(c, outcome) ==
  IF outcome \in {"reused", "created"} THEN 200 + DomBase(Dom(c)) ELSE NoTab

SetupTabOutcomes == {"reused", "created", "failed"}

\* for i, domain in enumerate(batch_domains): build the crawler, give it the
\* pre-created tab or call setup_tab, append it to crawlers if it has a tab
ConstructMember ==
  /\ pc = "construct"
  /\ LET c == ci
     IN IF precreated_tabs[Dom(c)] # NoTab
        THEN /\ tab_id' = [tab_id EXCEPT ![c] = precreated_tabs[Dom(c)]]
             /\ crawlers' = Append(crawlers, c)
             /\ lastOp' = Op("construct_member", c, NoUrl, "-", FALSE, TRUE, "precreated")
             /\ UNCHANGED active
        ELSE \E outcome \in SetupTabOutcomes :
               /\ tab_id' = [tab_id EXCEPT ![c] = setup_tab(c, outcome)]
               /\ crawlers' = IF outcome = "failed" THEN crawlers ELSE Append(crawlers, c)
               /\ active' = [active EXCEPT ![c] = outcome # "failed"]
               /\ lastOp' = Op("construct_member", c, NoUrl, "-", FALSE,
                               outcome # "failed", outcome)
  /\ IF ci < Len(batch_domains)
     THEN /\ ci' = ci + 1
          /\ pc' = "construct"
     ELSE /\ ci' = 1
          /\ pc' = "constructed"
  /\ UNCHANGED <<ledgerVars, pending, pending_shas, total_ok, total_errors, progress,
                 reg_calls, mark_returned, fetch_err, pass_moved, turns, at_start,
                 batch_domains, precreated_tabs, closed_tabs, discovered,
                 renderer_log, fnVars, clock, mainVars>>

\* an early return as soon as one member of the batch is without a tab
some_member_missing(cs) == Len(cs) < Len(batch_domains)

\* not crawlers
no_crawlers(cs) == cs = <<>>

\* if not crawlers: return []
CheckCrawlers ==
  /\ pc = "constructed"
  /\ pc' = IF no_crawlers(crawlers) THEN "returned" ELSE "discover"
  /\ lastOp' = PlainOp("check_crawlers", 0)
  /\ UNCHANGED <<ledgerVars, memoryVars, ci, progress, reg_calls, mark_returned,
                 fetch_err, pass_moved, turns, at_start, batchVars, fnVars, clock, mainVars>>

\* for c in crawlers: c.discover(); c.refresh_pending()
DiscoverStep ==
  /\ pc = "discover"
  /\ LET c == crawlers[ci]
         S == refresh_pending(discover(Self(c)).st)
     IN /\ Commit(c, S)
        /\ discovered' = discovered \cup {c}
        /\ lastOp' = [PlainOp("discover", c) EXCEPT !.calls = S.calls]
  /\ IF ci < NumCrawlers
     THEN /\ ci' = ci + 1
          /\ pc' = "discover"
     ELSE /\ ci' = 1
          /\ pc' = "while"
  /\ UNCHANGED <<active, progress, fetch_err, pass_moved, turns, at_start,
                 batch_domains, precreated_tabs, crawlers, tab_id, closed_tabs,
                 renderer_log, fnVars, clock, mainVars>>

\* while any(c.has_pending() for c in crawlers): progress = False
WhileCheck ==
  /\ pc = "while"
  /\ IF \E c \in Crawlers : InCrawlers(c) /\ has_pending(c)
     THEN /\ pc' = "for"
          /\ progress' = FALSE
          /\ pass_moved' = FALSE
     ELSE /\ pc' = "close"
          /\ UNCHANGED <<progress, pass_moved>>
  /\ ci' = 1
  /\ at_start' = [d \in Domains |-> {}]
  /\ lastOp' = PlainOp("while", 0)
  /\ UNCHANGED turns
  /\ UNCHANGED <<ledgerVars, memoryVars, reg_calls, mark_returned, fetch_err,
                 batchVars, fnVars, clock, mainVars>>

Moved(out) == out \notin {"empty_queue", "stale", "bridge_error"}

\* What the log keeps of one navigate: whether a call raised into the outer
\* except, or else whether the HTML that came back was longer than 500
\* characters.
Answer(resp) ==
  IF resp.raised THEN "raised" ELSE IF resp.len > 500 THEN "large" ELSE "small"

\* for c in crawlers: if c.has_pending(): if c.process_one(): progress = True
\* (an exception that leaves process_one unwinds crawl_batch; with log the
\* navigate calls of the run are kept in renderer_log; answers[url] is what
\* the renderer may give back for url)
VisitAnswering(log, answers) ==
  /\ pc = "for"
  /\ LET c == crawlers[ci]
     IN IF has_pending(c)
        THEN \E resp \in answers[Head(pending[c])[2]] :
               LET r == process_one(Self(c), resp)
               IN /\ Commit(c, r.st)
                  /\ progress' = (progress \/ r.ret)
                  /\ pass_moved' = (pass_moved \/ Moved(r.out))
                  /\ turns' = TurnOf(c)
                  /\ fetch_err' = [fetch_err EXCEPT ![c] =
                        IF r.out = "bridge_error" THEN @ \cup {r.sha} ELSE @ \ {r.sha}]
                  /\ renderer_log' =
                        IF log /\ r.fetched
                        THEN [renderer_log EXCEPT ![r.url] = Append(@, Answer(resp))]
                        ELSE renderer_log
                  /\ lastOp' = [Op("process_one", c, r.url,
                                     state_of(Self(c), r.sha), TRUE, r.ret, r.out)
                                  EXCEPT !.raised_at =
                                    IF log /\ r.fetched THEN resp.at ELSE "-"]
                  /\ IF r.uncaught
                     THEN pc' = "aborted" /\ ci' = ci
                     ELSE IF ci < NumCrawlers
                     THEN pc' = "for" /\ ci' = ci + 1
                     ELSE pc' = "after_for" /\ ci' = 1
        ELSE /\ lastOp' = PlainOp("skip", c)
             /\ IF ci < NumCrawlers
                THEN pc' = "for" /\ ci' = ci + 1
                ELSE pc' = "after_for" /\ ci' = 1
             /\ UNCHANGED <<ledgerVars, pending, pending_shas, total_ok, total_errors,
                            mark_returned, reg_calls, progress, pass_moved, turns, fetch_err,
                            renderer_log>>
  /\ UNCHANGED <<active, at_start, batch_domains, precreated_tabs, crawlers, tab_id,
                 closed_tabs, discovered, fnVars, clock, mainVars>>

\* The renderer may give back anything for any URL.
VisitMember(log) == VisitAnswering(log, [url \in AllUrls |-> Responses])

Visit == VisitMember(FALSE)

\* (variant: every pass ends with a refresh of the frontiers)
AfterPassRefreshing ==
  /\ pc = "after_for"
  /\ IF progress \/ ~progress
     THEN /\ pending' = [c \in Crawlers |->
                IF InCrawlers(c) /\ active[c]
                THEN refresh_pending(Self(c)).pending ELSE pending[c]]
          /\ pending_shas' = [c \in Crawlers |->
                IF InCrawlers(c) /\ active[c]
                THEN refresh_pending(Self(c)).shas ELSE pending_shas[c]]
          /\ pc' = IF \E c \in Crawlers : InCrawlers(c) /\ active[c] /\ Len(pending'[c]) > 0
                   THEN "while" ELSE "close"
          /\ lastOp' = Op("after_pass", 0, NoUrl, "-", FALSE, FALSE, "refreshed")
     ELSE /\ pc' = "while"
          /\ lastOp' = Op("after_pass", 0, NoUrl, "-", FALSE, FALSE, "not_refreshed")
          /\ UNCHANGED <<pending, pending_shas>>
  /\ UNCHANGED <<ledgerVars, total_ok, total_errors, active, ci, progress,
                 reg_calls, mark_returned, fetch_err, pass_moved, turns, at_start,
                 batchVars, fnVars, clock, mainVars>>

\* if not progress: refresh every active crawler; break if none has pending
AfterPass ==
  /\ pc = "after_for"
  /\ IF ~progress
     THEN /\ pending' = [c \in Crawlers |->
                IF InCrawlers(c) /\ active[c]
                THEN refresh_pending(Self(c)).pending ELSE pending[c]]
          /\ pending_shas' = [c \in Crawlers |->
                IF InCrawlers(c) /\ active[c]
                THEN refresh_pending(Self(c)).shas ELSE pending_shas[c]]
          /\ pc' = IF \E c \in Crawlers : InCrawlers(c) /\ active[c] /\ Len(pending'[c]) > 0
                   THEN "while" ELSE "close"
          /\ lastOp' = Op("after_pass", 0, NoUrl, "-", FALSE, FALSE, "refreshed")
     ELSE /\ pc' = "while"
          /\ lastOp' = Op("after_pass", 0, NoUrl, "-", FALSE, FALSE, "not_refreshed")
          /\ UNCHANGED <<pending, pending_shas>>
  /\ UNCHANGED <<ledgerVars, total_ok, total_errors, active, ci, progress,
                 reg_calls, mark_returned, fetch_err, pass_moved, turns, at_start,
                 batchVars, fnVars, clock, mainVars>>

\* for c in crawlers: if c.tab_id: close_tab_by_id(c.tab_id); return crawlers
CloseTabs ==
  /\ pc = "close"
  /\ pc' = "done"
  /\ closed_tabs' = {tab_id[c] : c \in {m \in Crawlers : InCrawlers(m) /\ tab_id[m] # NoTab}}
  /\ lastOp' = PlainOp("close", 0)
  /\ UNCHANGED <<ledgerVars, memoryVars, ci, progress,
                 reg_calls, mark_returned, fetch_err, pass_moved, turns, at_start,
                 batch_domains, precreated_tabs, crawlers, tab_id, discovered,
                 renderer_log, fnVars, clock, mainVars>>

\* ------------------------------------------------- interruption and restart
\* The ledger when the process dies inside a loop of register_url or
\* register_and_queue calls: the URLs of done went through, torn (if any) got
\* its placeholder (touch_file) but not yet its Index entry.
partial_register(S, done, torn) ==
  LET S1 == register_all(S, done, 0).st
  IN IF torn = NoUrl \/ is_downloaded(S1, url_to_sha(torn)) \/ is_failed(S1, url_to_sha(torn))
     THEN S1
     ELSE touch_file(S1, url_to_sha(torn))

\* The reasons process_one can call mark_failed with for a URL.
FailureReasons(url) ==
  IF IsBinaryUrl(url) THEN {"skipped_binary"}
  ELSE {"empty_response"} \cup {error_reason(t) : t \in Titles \ {{}}}

Running == pc \in {"discover", "while", "for", "after_for", "close"}

\* What a dying or starting process leaves alone besides the ledger.
keptVars == <<batch_domains, precreated_tabs, crawlers, tab_id, renderer_log, fnVars, clock, mainVars>>

\* The process dies between two ledger writes of no handler: memory is lost.
Kill ==
  /\ Running
  /\ pc' = "dead"
  /\ ci' = 1
  /\ FreshMemory
  /\ at_start' = [d \in Domains |-> {}]
  /\ lastOp' = PlainOp("kill", 0)
  /\ UNCHANGED <<ledgerVars, reg_calls, mark_returned, keptVars>>

\* The process dies inside mark_failed, between writing the Failure record
\* and archiving the placeholder.
KilledInMarkFailed ==
  /\ pc = "for"
  /\ has_pending(crawlers[ci])
  /\ LET c == crawlers[ci]
         S == Self(c)
         sha == Head(S.pending)[1]
         url == Head(S.pending)[2]
     IN /\ ~(is_failed(S, sha) \/ is_downloaded(S, sha))
        /\ \E reason \in FailureReasons(url) :
             LET S1 == write_failure(S, sha, url, reason)
             IN /\ failed_dir' = [failed_dir EXCEPT ![Dom(c)] = S1.failed]
                /\ lastOp' = Op("kill_in_mark_failed", c, url, "Pending", TRUE, FALSE, reason)
  /\ pc' = "dead"
  /\ ci' = 1
  /\ FreshMemory
  /\ at_start' = [d \in Domains |-> {}]
  /\ UNCHANGED <<html_dir, index_dir, removed_dir, reg_calls, mark_returned, keptVars>>

\* The process dies in process_one after the page was written, inside the
\* loop that registers its links.
KilledInLinkLoop ==
  /\ pc = "for"
  /\ has_pending(crawlers[ci])
  /\ LET c == crawlers[ci]
         S == Self(c)
         sha == Head(S.pending)[1]
         url == Head(S.pending)[2]
         links == StaticLinks(url) \cup JsLinks(url)
     IN /\ ~(is_failed(S, sha) \/ is_downloaded(S, sha))
        /\ ~IsBinaryUrl(url)
        /\ \E len \in {n \in HtmlLens : n > 500}, done \in SUBSET links :
             \E torn \in (links \ done) \cup {NoUrl} :
               LET S1 == partial_register(write_html(S, sha, url, len), done, torn)
               IN /\ html_dir' = [html_dir EXCEPT ![Dom(c)] = S1.html]
                  /\ index_dir' = [index_dir EXCEPT ![Dom(c)] = S1.index]
                  /\ lastOp' = Op("kill_in_link_loop", c, url, "Pending", TRUE, FALSE, "-")
  /\ pc' = "dead"
  /\ ci' = 1
  /\ FreshMemory
  /\ at_start' = [d \in Domains |-> {}]
  /\ UNCHANGED <<failed_dir, removed_dir, reg_calls, mark_returned, keptVars>>

\* The process dies inside discover: the files of whole were gone through,
\* the links of one more file in part.
KilledInDiscover ==
  /\ pc = "discover"
  /\ LET c == crawlers[ci]
         S == Self(c)
         files == downloaded_files(S)
     IN \E whole \in SUBSET files :
          \E f \in files \ whole :
            \E done \in SUBSET StaticLinks(S.html[f].url) :
              \E torn \in (StaticLinks(S.html[f].url) \ done) \cup {NoUrl} :
                LET S1 == partial_register(discover_files(S, whole, 0).st, done, torn)
                IN /\ html_dir' = [html_dir EXCEPT ![Dom(c)] = S1.html]
                   /\ index_dir' = [index_dir EXCEPT ![Dom(c)] = S1.index]
                   /\ reg_calls' = [reg_calls EXCEPT ![Dom(c)] = S1.regd]
                   /\ lastOp' = PlainOp("kill_in_discover", c)
  /\ pc' = "dead"
  /\ ci' = 1
  /\ FreshMemory
  /\ at_start' = [d \in Domains |-> {}]
  /\ UNCHANGED <<failed_dir, removed_dir, mark_returned, keptVars>>

\* The crawler is started again on the same ledger: crawl_batch builds new
\* DomainCrawler objects and runs discovery.
Restart ==
  /\ pc \in {"dead", "done"}
  /\ pc' = "discover"
  /\ ci' = 1
  /\ FreshMemory
  /\ at_start' = [d \in Domains |-> {sha \in ShasOf(d) : StateOf(d, sha) = "Pending"}]
  /\ lastOp' = PlainOp("construct", 0)
  /\ UNCHANGED <<ledgerVars, reg_calls, mark_returned, keptVars>>

Next ==
  \/ DiscoverStep
  \/ WhileCheck
  \/ Visit
  \/ AfterPass
  \/ CloseTabs
  \/ Kill
  \/ KilledInMarkFailed
  \/ KilledInLinkLoop
  \/ KilledInDiscover
  \/ Restart

Spec == Init /\ [][Next]_vars

\* ------------------------------------------------ one batch, from its start
\* A ledger in which the URLs of registered are Pending with their Index
\* entry and nothing else is known.
LedgerWith(registered) ==
  /\ html_dir = [d \in Domains |-> [sha \in ShasOf(d) |->
                   IF \E u \in registered : url_to_sha(u) = sha THEN EmptyFile ELSE NoFile]]
  /\ index_dir = [d \in Domains |-> [sha \in ShasOf(d) |->
                   IF \E u \in registered : url_to_sha(u) = sha
                   THEN CHOOSE u \in registered : url_to_sha(u) = sha ELSE NoUrl]]
  /\ failed_dir = [d \in Domains |-> [sha \in ShasOf(d) |-> NoRecord]]
  /\ removed_dir = {}

\* The batches crawl_batch is called with: a single domain, or two.
Batches == {<<"d1">>, <<"d1", "d2">>}

MembersOf(batch) == {batch[i] : i \in 1..Len(batch)}

\* crawl_batch is entered: a batch, the tabs main pre-created for some of its
\* members (or for none), and a ledger with the first pages of the first
\* domain (or none of them) and the start page of the second Pending.
InitBatch ==
  /\ clock = 0
  /\ batch_domains \in Batches
  /\ precreated_tabs \in [Domains -> {NoTab} \cup {MainTab(d) : d \in Domains}]
  /\ \A d \in Domains :
       precreated_tabs[d] \in {NoTab, MainTab(d)}
         /\ (d \notin MembersOf(batch_domains) => precreated_tabs[d] = NoTab)
  /\ \E k \in 0..SiteSize("d1") :
       LedgerWith({DomBase("d1") + n : n \in 1..k} \cup {SeedUrl("d2")})
  /\ InitMemory
  /\ NoCall
  /\ NoMain
  /\ crawlers = <<>>
  /\ tab_id = [c \in Crawlers |-> NoTab]
  /\ pc = "construct"
  /\ ci = 1
  /\ at_start = [d \in Domains |-> {sha \in ShasOf(d) : StateOf(d, sha) = "Pending"}]
  /\ lastOp = PlainOp("enter", 0)

LoggedVisit == VisitMember(TRUE)

NextBatch ==
  \/ ConstructMember
  \/ CheckCrawlers
  \/ DiscoverStep
  \/ WhileCheck
  \/ LoggedVisit
  \/ AfterPass
  \/ CloseTabs

SpecBatch == InitBatch /\ [][NextBatch]_vars

\* The batch thread keeps running: nothing but the end of crawl_batch stops it.
FairBatch == SpecBatch /\ WF_vars(NextBatch)

\* ------------------------------------------------------- BATCH DISTRIBUTION
MAX_PER_BATCH == 4

\* cutting the list into chunks of max_per_batch, the last one shorter
RECURSIVE split_in_chunks(_, _)
split_in_chunks(domains, max_per_batch) ==
  IF Len(domains) <= max_per_batch THEN <<domains>>
  ELSE <<SubSeq(domains, 1, max_per_batch)>>
         \o split_in_chunks(SubSeq(domains, max_per_batch + 1, Len(domains)), max_per_batch)

\* the for loop of split_into_batches: batches i .. num_batches - 1, the
\* first of them starting at domains[idx]
RECURSIVE batches_from(_, _, _, _)
batches_from(domains, num_batches, i, idx) ==
  IF i >= num_batches THEN <<>>
  ELSE LET n == Len(domains)
           size == (n \div num_batches) + (IF i < n % num_batches THEN 1 ELSE 0)
       IN <<SubSeq(domains, idx + 1, idx + size)>>
            \o batches_from(domains, num_batches, i + 1, idx + size)

split_into_batches(domains, max_per_batch) ==
  LET n == Len(domains)
  IN IF n <= max_per_batch THEN <<domains>>
     ELSE batches_from(domains, (n + max_per_batch - 1) \div max_per_batch, 0, 0)

\* The crawler is not running: the state of a batch that was never entered.
Idle ==
  /\ InitLedger
  /\ InitMemory
  /\ InitCrawlers
  /\ pc = "idle"
  /\ ci = 1
  /\ at_start = [d \in Domains |-> {}]
  /\ lastOp = PlainOp("idle", 0)

crawlVars == <<ledgerVars, memoryVars, controlVars, historyVars, batchVars>>

\* A list of n domains (the k-th domain is k) and a max_per_batch.
InitSplit ==
  /\ clock = 0
  /\ Idle
  /\ NoMain
  /\ \E n \in 0..MaxDomains, m \in 1..MaxPerBatchArg :
       fn_in = <<[k \in 1..n |-> k], m>>
  /\ fn_out = <<>>

SplitCall ==
  /\ fn_out = <<>>
  /\ fn_out' = <<split_into_batches(fn_in[1], fn_in[2])>>
  /\ UNCHANGED <<fn_in, clock, crawlVars, mainVars>>

SpecSplit == InitSplit /\ [][SplitCall]_vars

\* -------------------------------------------------------------------- MAIN
\* main with its batch threads.  Each domain's site is one page, Pending in
\* its ledger at the start, which a fetch settles; a crawl_batch thread is
\* followed through crawler construction, discovery, the round-robin loop
\* (process_one as a step that begins and a step that ends) and tab release.

\* The command lines: n domains, all different, or the last one naming the
\* first domain again.
ArgLists ==
  {[k \in 1..n |-> k] : n \in 1..MaxArgs}
    \cup {[k \in 1..n |-> IF k = n THEN 1 ELSE k] : n \in 2..MaxArgs}

ArgDomains == 1..MaxArgs

\* batches = split_into_batches(domains)
MainBatches == split_into_batches(main_domains, MAX_PER_BATCH)

ThreadIds == 1..Len(MainBatches)

\* Whether some batch thread has been started.
ThreadsStarted == \E t \in ThreadIds : threads[t].pc # "not_started"

\* crawl_batch's locals: where it stands, its loop index, its crawlers (the
\* members of the batch that got a tab), the tab_id of each of them, and the
\* members with a pending entry.
NewThread ==
  [pc |-> "not_started", i |-> 1, crawlers |-> <<>>, tabs |-> <<>>, frontier |-> {}]

\* The tab setup_tab leaves in the crawler of member i of batch t: the tab
\* mapped to its agent key (one key per position) or a tab create_tab opened.
ThreadTab(t, i) == 100 + 10 * t + i

InitMain ==
  /\ clock = 0
  /\ Idle
  /\ NoCall
  /\ main_domains \in ArgLists
  /\ main_pc = "check_bridge"
  /\ main_i = 1
  /\ main_tabs = [d \in ArgDomains |-> NoTab]
  /\ threads = [t \in 1..Len(split_into_batches(main_domains, MAX_PER_BATCH)) |-> NewThread]
  /\ site_work = [d \in ArgDomains |-> "pending"]
  /\ tab_requests = {}
  /\ drivers = [d \in ArgDomains |-> {}]
  /\ in_progress = [t \in 1..Len(split_into_batches(main_domains, MAX_PER_BATCH)) |-> {}]
  /\ all_results = [t \in 1..Len(split_into_batches(main_domains, MAX_PER_BATCH)) |-> <<>>]

\* What GET /health of the bridge comes to.
HealthOutcomes == {"ok", "connection_refused", "timeout"}

\* (variant: the exception of bridge_request is not caught)
check_chrome_running_uncaught(health) ==
  [ret |-> health = "ok", raised |-> health # "ok"]

\* check_chrome_running: True if bridge_request returned, False if it raised
check_chrome_running(health) ==
  [ret |-> health = "ok", raised |-> FALSE]

\* if not _bridge.check_chrome_running(): print("Chrome bridge not
\* reachable!"); return
CheckBridge ==
  /\ main_pc = "check_bridge"
  /\ \E health \in HealthOutcomes :
       main_pc' = IF check_chrome_running(health).raised THEN "raised"
                  ELSE IF ~check_chrome_running(health).ret THEN "not_reachable"
                  ELSE "precreate"
  /\ UNCHANGED <<all_results, main_domains, main_i, main_tabs, threads, site_work, tab_requests, drivers,
                 in_progress, crawlVars, fnVars, clock>>

PreCreateOutcomes == {"reused", "created", "failed"}

\* for batch in batches: for domain in batch: reuse the mapped tab or call
\* create_tab; precreated_tabs[domain] = tab_id unless create_tab failed
PreCreateTab ==
  /\ main_pc = "precreate"
  /\ \E outcome \in PreCreateOutcomes :
       /\ main_tabs' = IF outcome = "failed" THEN main_tabs
                       ELSE [main_tabs EXCEPT ![main_domains[main_i]] = main_i]
       /\ tab_requests' = tab_requests \cup
            {[by |-> 0, kind |-> IF outcome = "reused" THEN "reuse" ELSE "create_tab",
              threads_started |-> ThreadsStarted]}
  /\ IF main_i < Len(main_domains)
     THEN main_i' = main_i + 1 /\ main_pc' = "precreate"
     ELSE main_i' = 1 /\ main_pc' = "start"
  /\ UNCHANGED <<all_results, main_domains, threads, site_work, drivers, in_progress, crawlVars, fnVars, clock>>

\* for t in threads: t.start()
StartThread ==
  /\ main_pc = "start"
  /\ threads' = [threads EXCEPT ![main_i].pc = "construct"]
  /\ IF main_i < Len(MainBatches)
     THEN main_i' = main_i + 1 /\ main_pc' = "start"
     ELSE main_i' = 1 /\ main_pc' = "join"
  /\ UNCHANGED <<all_results, main_domains, main_tabs, site_work, tab_requests, drivers, in_progress,
                 crawlVars, fnVars, clock>>

\* for t in threads: t.join()
JoinThreads ==
  /\ main_pc = "join"
  /\ \A t \in ThreadIds : threads[t].pc = "ended"
  /\ main_pc' = "done"
  /\ UNCHANGED <<all_results, main_domains, main_i, main_tabs, threads, site_work, tab_requests, drivers,
                 in_progress, crawlVars, fnVars, clock>>

\* The domain of member i of batch t.
Member(t, i) == MainBatches[t][i]

\* crawl_batch, construction: a member whose domain is in precreated_tabs
\* takes that tab; any other member calls setup_tab, in this thread
ThreadConstruct ==
  \E t \in ThreadIds :
    /\ threads[t].pc = "construct"
    /\ LET i == threads[t].i
           last == i = Len(MainBatches[t])
           after(cs, tabs) ==
             [threads EXCEPT ![t].crawlers = cs,
                             ![t].tabs = tabs,
                             ![t].i = IF last THEN 1 ELSE i + 1,
                             ![t].pc = IF ~last THEN "construct"
                                       ELSE IF cs = <<>> THEN "returned"
                                       ELSE "discover"]
       IN IF main_tabs[Member(t, i)] # NoTab
          THEN /\ threads' = after(Append(threads[t].crawlers, i),
                                    Append(threads[t].tabs, main_tabs[Member(t, i)]))
               /\ UNCHANGED tab_requests
          ELSE \E outcome \in SetupTabOutcomes :
                 /\ threads' = IF outcome = "failed"
                               THEN after(threads[t].crawlers, threads[t].tabs)
                               ELSE after(Append(threads[t].crawlers, i),
                                          Append(threads[t].tabs, ThreadTab(t, i)))
                 /\ tab_requests' = tab_requests \cup
                      {[by |-> t, kind |-> IF outcome = "reused" THEN "reuse" ELSE "create_tab",
                        threads_started |-> ThreadsStarted]}
    /\ UNCHANGED <<all_results, main_domains, main_pc, main_i, main_tabs, site_work, drivers, in_progress,
                   crawlVars, fnVars, clock>>

\* crawl_batch, discovery: discover and refresh_pending on the member's ledger
ThreadDiscover ==
  \E t \in ThreadIds :
    /\ threads[t].pc = "discover"
    /\ LET i == threads[t].i
           c == threads[t].crawlers[i]
           last == i = Len(threads[t].crawlers)
       IN /\ threads' = [threads EXCEPT
               ![t].frontier = IF site_work[Member(t, c)] = "pending" THEN @ \cup {c} ELSE @,
               ![t].i = IF last THEN 1 ELSE i + 1,
               ![t].pc = IF last THEN "while" ELSE "discover"]
          /\ drivers' = [drivers EXCEPT ![Member(t, c)] = @ \cup {t}]
    /\ UNCHANGED <<all_results, main_domains, main_pc, main_i, main_tabs, site_work, tab_requests,
                   in_progress, crawlVars, fnVars, clock>>

\* while any(c.has_pending() for c in crawlers)
ThreadWhile ==
  \E t \in ThreadIds :
    /\ threads[t].pc = "while"
    /\ threads' = [threads EXCEPT ![t].pc = IF threads[t].frontier # {} THEN "for" ELSE "close",
                                  ![t].i = 1]
    /\ UNCHANGED <<all_results, main_domains, main_pc, main_i, main_tabs, site_work, tab_requests, drivers,
                   in_progress, crawlVars, fnVars, clock>>

\* The for loop moves to its next crawler, or the pass is over (progress is
\* set by every process_one that popped an entry, so the loop goes back to
\* its while).
NextCrawler(t) ==
  IF threads[t].i < Len(threads[t].crawlers)
  THEN [pc |-> "for", i |-> threads[t].i + 1]
  ELSE [pc |-> "while", i |-> 1]

\* for c in crawlers: if c.has_pending(): c.process_one() is entered: the
\* entry is popped, and dropped if the ledger has the page settled
ThreadBeginOne ==
  \E t \in ThreadIds :
    /\ threads[t].pc = "for"
    /\ LET c == threads[t].crawlers[threads[t].i]
       IN IF c \notin threads[t].frontier
          THEN /\ threads' = [threads EXCEPT ![t].pc = NextCrawler(t).pc,
                                             ![t].i = NextCrawler(t).i]
               /\ UNCHANGED <<drivers, in_progress>>
          ELSE /\ drivers' = [drivers EXCEPT ![Member(t, c)] = @ \cup {t}]
               /\ IF site_work[Member(t, c)] = "done"
                  THEN /\ threads' = [threads EXCEPT ![t].frontier = @ \ {c},
                                                     ![t].pc = NextCrawler(t).pc,
                                                     ![t].i = NextCrawler(t).i]
                       /\ UNCHANGED in_progress
                  ELSE /\ threads' = [threads EXCEPT ![t].frontier = @ \ {c},
                                                     ![t].pc = "process_one"]
                       /\ in_progress' = [in_progress EXCEPT ![t] = @ \cup {c}]
    /\ UNCHANGED <<all_results, main_domains, main_pc, main_i, main_tabs, site_work, tab_requests,
                   crawlVars, fnVars, clock>>

\* process_one returns: the page is Downloaded or Failed in the ledger
ThreadEndOne ==
  \E t \in ThreadIds :
    /\ threads[t].pc = "process_one"
    /\ LET c == threads[t].crawlers[threads[t].i]
       IN /\ site_work' = [site_work EXCEPT ![Member(t, c)] = "done"]
          /\ in_progress' = [in_progress EXCEPT ![t] = @ \ {c}]
          /\ threads' = [threads EXCEPT ![t].pc = NextCrawler(t).pc,
                                        ![t].i = NextCrawler(t).i]
    /\ UNCHANGED <<all_results, main_domains, main_pc, main_i, main_tabs, tab_requests, drivers,
                   crawlVars, fnVars, clock>>

\* close the tabs; return crawlers
ThreadClose ==
  \E t \in ThreadIds :
    /\ threads[t].pc = "close"
    /\ threads' = [threads EXCEPT ![t].pc = "returned"]
    /\ UNCHANGED <<all_results, main_domains, main_pc, main_i, main_tabs, site_work, tab_requests, drivers,
                   in_progress, crawlVars, fnVars, clock>>

\* (variant: run_batch reads the loop variable of main when it runs)
run_batch_idx_late(t) == Len(MainBatches)

\* The idx run_batch of thread t was given: args=(batch_idx, batch,
\* domain_offset), as a slot of all_results.
run_batch_idx(t) == t

\* all_results[idx] = crawl_batch(...), and run_batch ends: the thread is over
ThreadStoreResult ==
  \E t \in ThreadIds :
    /\ threads[t].pc = "returned"
    /\ all_results' = [all_results EXCEPT ![run_batch_idx(t)] =
                         Append(@, [by |-> t, crawlers |-> threads[t].crawlers])]
    /\ threads' = [threads EXCEPT ![t].pc = "ended"]
    /\ UNCHANGED <<main_domains, main_pc, main_i, main_tabs, site_work, tab_requests, drivers,
                   in_progress, crawlVars, fnVars, clock>>

NextMain ==
  \/ CheckBridge
  \/ PreCreateTab
  \/ StartThread
  \/ JoinThreads
  \/ ThreadConstruct
  \/ ThreadDiscover
  \/ ThreadWhile
  \/ ThreadBeginOne
  \/ ThreadEndOne
  \/ ThreadClose
  \/ ThreadStoreResult

SpecMain == InitMain /\ [][NextMain]_vars

\* ===================================================================== claims

\* C1: ledger transitions are monotone.  In every step, for every hash of
\* every domain, the ledger state either stays what it was or moves from
\* Unknown to Pending (admission), from Pending to Downloaded or from Pending
\* to Failed; a Downloaded hash stays Downloaded and a Failed hash stays
\* Failed, across runs and restarts.
AllowedMove(a, b) ==
  \/ a = b
  \/ a = "Unknown" /\ b = "Pending"
  \/ a = "Pending" /\ b \in {"Downloaded", "Failed"}

C1_MonotoneLedger ==
  [][\A d \in Domains : \A sha \in ShasOf(d) :
       AllowedMove(StateOf(d, sha), StateOf(d, sha)')]_vars

\* A restarted run has rebuilt its frontier on a ledger that holds a
\* Downloaded and a Failed hash and still has work to do.
C1_Witness ==
  /\ pc = "while"
  /\ lastOp.op = "discover"
  /\ \E sha \in ShasOf("d1") : StateOf("d1", sha) = "Downloaded"
  /\ \E sha \in ShasOf("d1") : StateOf("d1", sha) = "Failed"
  /\ pending[1] # <<>>

\* C2: every registered hash is in one of Pending, Downloaded, Failed; no
\* hash has both a Failure record and a Downloaded Content entry; and a hash
\* for which mark_failed has returned never has both a Failure record and a
\* zero-size placeholder.
C2_OneStatePerHash ==
  \A d \in Domains : \A sha \in ShasOf(d) :
    /\ index_dir[d][sha] # NoUrl => StateOf(d, sha) \in {"Pending", "Downloaded", "Failed"}
    /\ ~(failed_dir[d][sha] # NoRecord /\ html_dir[d][sha].size > 100)
    /\ sha \in mark_returned[d] =>
         ~(failed_dir[d][sha] # NoRecord /\ html_dir[d][sha].size = 0)

\* mark_failed has returned for a hash whose page a later fetch linked to
\* again, after the same domain downloaded a page.
C2_Witness ==
  \E sha \in ShasOf("d1") :
    /\ sha \in mark_returned["d1"]
    /\ sha \in removed_dir
    /\ failed_dir["d1"][sha].reason = "skipped_binary"
    /\ lastOp.op = "process_one" /\ lastOp.out = "ok" /\ lastOp.c = 1
    /\ url_to_sha(lastOp.url) # sha

\* C3: a hash that is Failed or Downloaded is never placed on the frontier.
\* In every step, a hash that the step put on a crawler's frontier (it was
\* not there before, or the step rebuilt the frontier from the ledger) is
\* neither Failed nor Downloaded in the ledger the step leaves.
C3_NeverRequeued ==
  [][\A c \in Crawlers : \A sha \in ShasOf(Dom(c)) :
       (InFrontier(c, sha)' /\ (~InFrontier(c, sha) \/ lastOp'.op \in {"discover", "after_pass"}))
         => StateOf(Dom(c), sha)' \notin {"Failed", "Downloaded"}]_vars

\* A frontier was rebuilt while the ledger held a Failure record next to a
\* zero-size placeholder (mark_failed was cut short) and a Downloaded page:
\* neither is on the frontier.
C3_Witness ==
  /\ lastOp.op = "discover"
  /\ lastOp.c = 1
  /\ pending[1] # <<>>
  /\ \E sha \in ShasOf("d1") :
       /\ failed_dir["d1"][sha] # NoRecord
       /\ html_dir["d1"][sha] = EmptyFile
       /\ ~InFrontier(1, sha)
  /\ \E sha \in ShasOf("d1") : StateOf("d1", sha) = "Downloaded" /\ ~InFrontier(1, sha)

\* C4: admission is idempotent.  The first register_url call for a URL the
\* ledger does not know returns true, every later call for the same URL
\* returns false, and once register_url has returned for a URL the ledger
\* holds one Index entry for its hash, naming that URL (the Content entry is
\* one file of html/ per hash by construction).
C4_IdempotentAdmission ==
  /\ \A call \in lastOp.calls :
       /\ (call.first /\ call.pre = "Unknown" /\ ~call.idx) => call.ret
       /\ ~call.first => ~call.ret
  /\ \A d \in Domains : \A url \in reg_calls[d] :
       index_dir[d][url_to_sha(url)] = url

\* One discovery made a first call for an unknown URL, which returned true,
\* and a repeated call for another URL, which returned false.
C4_Witness ==
  /\ \E call \in lastOp.calls : call.first /\ call.pre = "Unknown" /\ ~call.idx /\ call.ret
  /\ \E call \in lastOp.calls : ~call.first /\ ~call.ret

\* C5 as stated: register_url returns false and changes nothing when the hash
\* is Downloaded or Failed; in every other case, a hash that is already
\* Pending included, it ensures Index entry and sentinel and returns true.
C5_AsStated ==
  \A call \in lastOp.calls :
    IF call.pre \in {"Downloaded", "Failed"}
    THEN ~call.ret /\ ~call.changed
    ELSE call.ensured /\ call.ret

\* C5 as amended: register_url returns false and changes nothing when the
\* hash is Downloaded or Failed; in every other case it ensures that the
\* Index entry and the zero-size sentinel exist, and it returns true exactly
\* when the Index entry did not exist before the call, so false for a hash
\* that is already Pending with its Index entry.
C5_RegisterUrlContract ==
  \A call \in lastOp.calls :
    IF call.pre \in {"Downloaded", "Failed"}
    THEN ~call.ret /\ ~call.changed
    ELSE call.ensured /\ (call.ret <=> ~call.idx)

\* One discovery called register_url on a Pending hash that had its Index
\* entry (it returned false and left sentinel and Index entry in place) and
\* on a Downloaded hash.
C5_Witness ==
  /\ \E call \in lastOp.calls : call.pre = "Pending" /\ call.idx /\ ~call.ret /\ call.ensured
  /\ \E call \in lastOp.calls : call.pre = "Downloaded" /\ ~call.ret /\ ~call.changed

\* The hashes and URLs of a crawler's frontier.
FrontierShas(c) == {pending[c][i][1] : i \in 1..Len(pending[c])}

FrontierPairs(c) == {pending[c][i] : i \in 1..Len(pending[c])}

ZeroSizeNotFailed(d) ==
  {sha \in ShasOf(d) : html_dir[d][sha] = EmptyFile /\ failed_dir[d][sha] = NoRecord}

C7_RecoveryAsStated ==
  /\ (lastOp.op = "process_one" /\ Fetched(lastOp.out))
       => lastOp.pre \notin {"Downloaded", "Failed"}
  /\ (pc = "while" /\ lastOp.op = "discover")
       => \A c \in Crawlers : \A sha \in at_start[Dom(c)] : InFrontier(c, sha)

\* C8: a renderer call that raises during process_one leaves the ledger of
\* the domain as it was (no Failure record, placeholder and Index entry in
\* place, nothing archived), the hash Pending, and total_ok and total_errors
\* as they were.
C8_TransportErrorLeavesLedger ==
  [][(lastOp'.op = "process_one" /\ lastOp'.out = "bridge_error")
       => /\ UNCHANGED ledgerVars
          /\ UNCHANGED <<total_ok, total_errors>>
          /\ failed_dir'[Dom(lastOp'.c)][url_to_sha(lastOp'.url)] = NoRecord
          /\ html_dir'[Dom(lastOp'.c)][url_to_sha(lastOp'.url)] = EmptyFile
          /\ index_dir'[Dom(lastOp'.c)][url_to_sha(lastOp'.url)] = lastOp'.url]_vars

\* process_one of the first domain just ended in a transport error, after
\* the run had downloaded a page and counted it.
C8_Witness ==
  /\ lastOp.op = "process_one"
  /\ lastOp.out = "bridge_error"
  /\ lastOp.c = 1
  /\ total_ok[1] > 0
  /\ url_to_sha(lastOp.url) \in fetch_err[1]

\* C9: a URL whose fetch ended in a transport error is retried within the
\* same batch run.  Stated on the run's end: when the batch loop has exited,
\* no hash whose most recent fetch of this run raised is still Pending
\* (process_one was invoked on it again and got an answer).
C9_RetriedBeforeExit ==
  pc \in {"close", "done"} =>
    \A c \in Crawlers : \A sha \in fetch_err[c] : StateOf(Dom(c), sha) # "Pending"

\* C10: a pass in which no page was downloaded and none was marked Failed (a
\* pass of transport errors only is one) is a no-progress pass: after it,
\* refresh_pending is run on every active member.
C10_NoProgressRefreshes ==
  (lastOp.op = "after_pass" /\ ~pass_moved) => lastOp.out = "refreshed"

\* The URLs a domain's Index names.
Registered(d) == {u \in UrlsOf(d) : index_dir[d][url_to_sha(u)] = u}

\* Every navigate of the run so far came back, without a transport error,
\* with HTML of at most 500 characters.
OnlyShortAnswers ==
  \A u \in AllUrls : \A i \in 1..Len(renderer_log[u]) : renderer_log[u][i] = "small"

\* The run of a single-domain batch is over, every page it asked for came
\* back short, and no registered URL is one process_one skips as binary.
EmptySiteRunOver ==
  /\ pc \in {"close", "done"}
  /\ batch_domains = <<"d1">>
  /\ crawlers = <<1>>
  /\ OnlyShortAnswers
  /\ \A u \in Registered("d1") : ~IsBinaryUrl(u)

\* C11: a single-domain batch whose frontier holds N Pending URLs that all
\* render to HTML of at most 500 characters, without a transport error,
\* terminates, having fetched each of them exactly once and nothing else,
\* with no hash Downloaded and exactly those N hashes Failed, each with
\* reason empty_response.  (No download admits a URL, so the N URLs are the
\* ones the Index names.)
C11_EmptySiteTerminates ==
  /\ <>(pc \in {"done", "returned"})
  /\ [](EmptySiteRunOver =>
          /\ pending[1] = <<>>
          /\ \A u \in UrlsOf("d1") :
               /\ StateOf("d1", url_to_sha(u)) # "Downloaded"
               /\ IF u \in Registered("d1")
                  THEN /\ Len(renderer_log[u]) = 1
                       /\ failed_dir["d1"][url_to_sha(u)].reason = "empty_response"
                  ELSE /\ Len(renderer_log[u]) = 0
                       /\ StateOf("d1", url_to_sha(u)) = "Unknown"
          /\ total_errors[1] = Cardinality(Registered("d1"))
          /\ total_ok[1] = 0)

\* A single-domain batch with two Pending URLs has ended, both fetched once
\* and both Failed as empty responses.
C11_Witness ==
  /\ pc = "done"
  /\ EmptySiteRunOver
  /\ Cardinality(Registered("d1")) = 2
  /\ \A u \in Registered("d1") :
       /\ renderer_log[u] = <<"small">>
       /\ failed_dir["d1"][url_to_sha(u)].reason = "empty_response"

\* batch_sizes = [len(b) for b in batches]
BatchSizes(batches) == [i \in 1..Len(batches) |-> Len(batches[i])]

RECURSIVE SumSeq(_)
SumSeq(q) == IF q = <<>> THEN 0 ELSE Head(q) + SumSeq(Tail(q))

RECURSIVE Flatten(_)
Flatten(q) == IF q = <<>> THEN <<>> ELSE Head(q) \o Flatten(Tail(q))

\* ceil(n / m): the least k with k * m >= n.
CeilDiv(n, m) == CHOOSE k \in 0..n : k * m >= n /\ \A j \in 0..(k - 1) : j * m < n

\* C12: split_into_batches(domains, m) returns the one batch domains when
\* len(domains) <= m; otherwise exactly ceil(n/m) batches whose sizes are at
\* most m, differ pairwise by at most one, do not increase from one batch to
\* the next and sum to n (the batches are the list cut in order); and for
\* n = 13, m = 4 the sizes are [4, 3, 3, 3].
C12_BalancedBatches ==
  Len(fn_out) = 1 =>
    LET domains == fn_in[1]
        m == fn_in[2]
        n == Len(domains)
        batches == fn_out[1]
        sizes == BatchSizes(batches)
    IN /\ n <= m => batches = <<domains>>
       /\ n > m =>
            /\ Len(batches) = CeilDiv(n, m)
            /\ \A i \in 1..Len(sizes) : sizes[i] <= m
            /\ \A i, j \in 1..Len(sizes) : sizes[i] - sizes[j] <= 1
            /\ \A i \in 1..(Len(sizes) - 1) : sizes[i] >= sizes[i + 1]
            /\ SumSeq(sizes) = n
            /\ Flatten(batches) = domains
       /\ (n = 13 /\ m = 4) => sizes = <<4, 3, 3, 3>>

\* Thirteen domains were split with the program's max_per_batch, into four
\* batches.
C12_Witness ==
  /\ Len(fn_out) = 1
  /\ Len(fn_in[1]) = 13
  /\ fn_in[2] = MAX_PER_BATCH
  /\ Len(fn_out[1]) = 4

\* C13: every tab-allocation request of a run (create_tab, or the reuse of
\* a mapped tab) is issued by the main thread before any batch thread is
\* started; no batch thread issues one, also not for a domain whose
\* pre-creation failed.
C13_TabsAllocatedByMain ==
  \A req \in tab_requests : req.by = 0 /\ ~req.threads_started

\* C14: at most one process_one is in progress per batch at any time, and no
\* domain's ledger and frontier are worked by more than one batch thread
\* during the run, whatever the list of domains on the command line.
C14_OneThreadPerDomain ==
  /\ \A t \in ThreadIds : Cardinality(in_progress[t]) <= 1
  /\ \A d \in ArgDomains : Cardinality(drivers[d]) <= 1

\* C15: when a batch completes, close_tab_by_id has been called for the tab
\* of every member that was given one, and no tab is closed while a member
\* of the batch still has a non-empty frontier.
C15_TabsReleased ==
  /\ pc = "done" => \A c \in Crawlers : tab_id[c] # NoTab => tab_id[c] \in closed_tabs
  /\ closed_tabs # {} => \A c \in Crawlers : pending[c] = <<>>

\* A batch of two has completed after downloading a page: one member had its
\* tab from main, the other from setup_tab, and both tabs were closed.
C15_Witness ==
  /\ pc = "done"
  /\ crawlers = <<1, 2>>
  /\ tab_id[1] = MainTab("d1")
  /\ tab_id[2] = setup_tab(2, "created")
  /\ closed_tabs = {tab_id[1], tab_id[2]}
  /\ total_ok[1] > 0

\* The last step was a process_one in which a renderer call raised.
RendererRaised == lastOp.op = "process_one" /\ lastOp.raised_at \notin {"-", "none"}

\* C16: no exception raised by a renderer call inside process_one (navigate,
\* the readyState poll, the link query, get_html) leaves process_one.  The
\* batch is never aborted; the step in which the call raised hands over to
\* the next member of the pass (or ends the pass); and every run that got a
\* tab goes on to the end of crawl_batch, where every member's frontier is
\* empty and every tab was asked to close.
C16_RendererErrorsContained ==
  /\ [](pc # "aborted")
  /\ [][RendererRaised' =>
          \/ pc' = "for" /\ ci' = ci + 1
          \/ pc' = "after_for" /\ ci = NumCrawlers]_vars
  /\ [](RendererRaised => pc \in {"for", "after_for"})
  /\ <>(pc = "done" \/ (pc = "returned" /\ crawlers = <<>>))
  /\ [](pc = "done" =>
          /\ \A c \in Crawlers : pending[c] = <<>>
          /\ \A c \in Crawlers : tab_id[c] # NoTab => tab_id[c] \in closed_tabs)

\* A batch of two has completed: the only fetch of the first domain's start
\* page raised, and the second domain's start page was downloaded all the same.
C16_Witness ==
  /\ pc = "done"
  /\ crawlers = <<1, 2>>
  /\ renderer_log[SeedUrl("d1")] = <<"raised">>
  /\ StateOf("d2", url_to_sha(SeedUrl("d2"))) = "Downloaded"
  /\ closed_tabs = {tab_id[1], tab_id[2]}

\* The members of the batch that hold a tab.
WithTab == {c \in 1..Len(batch_domains) : tab_id[c] # NoTab}

\* C17: crawl_batch returns before discovery and before any fetch only when
\* no member of the batch obtained a tab.  If a member has one, there is no
\* early return: once the loop is reached, discover and refresh_pending have
\* run for exactly the members that hold a tab, and at the end of crawl_batch
\* the round-robin loop has emptied the frontier of each of them.
C17_EarlyReturnOnlyWithoutTabs ==
  /\ pc = "returned" =>
       /\ WithTab = {}
       /\ discovered = {}
       /\ \A u \in AllUrls : renderer_log[u] = <<>>
  /\ (pc = "constructed" /\ WithTab # {}) => ENABLED (CheckCrawlers /\ pc' = "discover")
  /\ pc \in {"while", "for", "after_for", "close", "done"} =>
       /\ WithTab # {}
       /\ discovered = WithTab
       /\ \A c \in WithTab : InCrawlers(c)
  /\ pc = "done" => \A c \in WithTab : pending[c] = <<>>

\* A batch of two has completed: the first member got no tab, the second
\* did, ran discovery and had its start page fetched.
C17_Witness ==
  /\ pc = "done"
  /\ Len(batch_domains) = 2
  /\ WithTab = {2}
  /\ discovered = {2}
  /\ renderer_log[SeedUrl("d2")] # <<>>
  /\ \A u \in UrlsOf("d1") : renderer_log[u] = <<>>

\* process_one is about to pop, for the member whose turn it is, a URL with a
\* binary extension that the ledger has as Pending.
PopsPendingBinary ==
  /\ pc = "for"
  /\ has_pending(crawlers[ci])
  /\ IsBinaryUrl(Head(pending[crawlers[ci]])[2])
  /\ StateOf(Dom(crawlers[ci]), Head(pending[crawlers[ci]])[1]) = "Pending"

\* C18: when process_one pops a Pending URL with a binary/document
\* extension, it writes a Failure record with reason skipped_binary and makes
\* no renderer call for it: the step leaves the record of renderer calls as
\* it was, and no renderer call is ever recorded for such a URL.
C18_BinarySkippedWithoutFetch ==
  /\ [][PopsPendingBinary =>
          LET c == crawlers[ci]
              sha == Head(pending[c])[1]
              url == Head(pending[c])[2]
          IN /\ failed_dir'[Dom(c)][sha] = [url |-> url, reason |-> "skipped_binary"]
             /\ renderer_log' = renderer_log
             /\ lastOp'.out = "skipped_binary"
             /\ lastOp'.raised_at = "-"]_vars
  /\ [](\A u \in AllUrls : IsBinaryUrl(u) => renderer_log[u] = <<>>)

\* The .exe page of d1 has just been skipped without a renderer call, after
\* other pages of d1 were requested from the renderer.
C18_Witness ==
  /\ lastOp.op = "process_one"
  /\ lastOp.out = "skipped_binary"
  /\ IsBinaryUrl(lastOp.url)
  /\ failed_dir["d1"][url_to_sha(lastOp.url)].reason = "skipped_binary"
  /\ renderer_log[lastOp.url] = <<>>
  /\ renderer_log[SeedUrl("d1")] # <<>>

\* ------------------------------------------------------------------- LINKS
\* Link extraction on one fetched page, as a function of the study's
\* config.json, the --subdomains flag and the links of the page.  A link is
\* its host, the segments of its path and whether it has a query string; the
\* crawl domain is a two-label root domain.
MaxPathLen == 2

Segs == {"docs", "shop"}

Paths == UNION {[1..n -> Segs] : n \in 0..MaxPathLen}

\* the root domain, www.<root>, another subdomain of it, another site
Hosts == {"root", "www", "sub", "other"}

\* A link as written in the page: its scheme, host and path, whether the path
\* ends in a slash, whether a query string and a fragment follow.
RawLinks ==
  [scheme : {"http", "https"}, host : Hosts, path : Paths, slash : BOOLEAN,
   query : BOOLEAN, fragment : BOOLEAN]

\* re.search(p, url, re.IGNORECASE): r'\?' finds a query string, a path
\* pattern finds its segment anywhere in the path
search(p, url) ==
  IF p = "?" THEN url.query ELSE \E i \in 1..Len(url.path) : url.path[i] = p

INCLUDE_PATTERNS == {}

\* of the built-in list, the patterns that links over Segs can match
EXCLUDE_PATTERNS == {"?", "docs"}

\* config.json: each of the two keys is there or not
ConfigPatterns == Segs

Configs ==
  {cfg \in [has_include : BOOLEAN, include_patterns : SUBSET ConfigPatterns,
            has_exclude : BOOLEAN, exclude_patterns : SUBSET ConfigPatterns] :
     /\ ~cfg.has_include => cfg.include_patterns = {}
     /\ ~cfg.has_exclude => cfg.exclude_patterns = {}}

\* self.config.get("include_patterns", INCLUDE_PATTERNS)
config_include(cfg) ==
  IF cfg.has_include THEN cfg.include_patterns ELSE INCLUDE_PATTERNS

\* self.config.get("exclude_patterns", EXCLUDE_PATTERNS)
config_exclude(cfg) ==
  IF cfg.has_exclude THEN cfg.exclude_patterns ELSE EXCLUDE_PATTERNS

\* (variant: the host is left as it is written)
normalize_url_keep_host(link) ==
  [scheme |-> "https", host |-> link.host, path |-> link.path,
   slash |-> link.slash /\ link.path = <<>>, query |-> FALSE, fragment |-> FALSE]

\* normalize_url: fragment and query string are cut off, http:// becomes
\* https://, the bare root domain becomes its www. form, and a trailing slash
\* goes unless it is the slash right after the host (url.count('/') > 3)
normalize_url(link) ==
  [scheme |-> "https",
   host |-> IF link.host = "root" THEN "www" ELSE link.host,
   path |-> link.path,
   slash |-> link.slash /\ link.path = <<>>,
   query |-> FALSE, fragment |-> FALSE]

is_same_domain(url_netloc, include_subdomains) ==
  IF ~include_subdomains
  THEN url_netloc = "root" \/ url_netloc = "www"
  ELSE url_netloc = "root" \/ url_netloc \in {"www", "sub"}

should_include_url(cfg, url) ==
  LET include == config_include(cfg)
      exclude == config_exclude(cfg)
  IN IF include # {} /\ ~\E p \in include : search(p, url) THEN FALSE
     ELSE IF exclude # {} /\ \E p \in exclude : search(p, url) THEN FALSE
     ELSE TRUE

\* extract_urls_from_html on the href attributes of the page
extract_urls_from_html(cfg, include_subdomains, hrefs) ==
  {url \in {normalize_url(l) : l \in hrefs} :
     /\ is_same_domain(url.host, include_subdomains)
     /\ should_include_url(cfg, url)}

\* (variant: every same-domain anchor is kept)
parse_js_links_unfiltered(include_subdomains, links) ==
  {link \in {normalize_url(l) : l \in links} :
     is_same_domain(link.host, include_subdomains)}

\* _parse_js_links on the rendered anchor list
parse_js_links(include_subdomains, links) ==
  {link \in {normalize_url(l) : l \in links} :
     /\ is_same_domain(link.host, include_subdomains)
     /\ ~(EXCLUDE_PATTERNS # {} /\ \E p \in EXCLUDE_PATTERNS : search(p, link))}

\* A page with one link, which the markup has, the rendered DOM has, or both.
InitLinks ==
  /\ clock = 0
  /\ Idle
  /\ NoMain
  /\ \E cfg \in Configs, include_subdomains \in BOOLEAN, l \in RawLinks :
       \E hrefs \in SUBSET {l}, anchors \in SUBSET {l} :
         /\ hrefs \cup anchors # {}
         /\ fn_in = <<cfg, include_subdomains, hrefs, anchors>>
  /\ fn_out = <<>>

\* process_one: new_urls, js_urls and all_urls = new_urls | js_urls, the
\* URLs handed to register_and_queue
ExtractLinks ==
  /\ fn_out = <<>>
  /\ LET new_urls == extract_urls_from_html(fn_in[1], fn_in[2], fn_in[3])
         js_urls == parse_js_links(fn_in[2], fn_in[4])
     IN fn_out' = <<[new_urls |-> new_urls, js_urls |-> js_urls,
                     all_urls |-> new_urls \cup js_urls]>>
  /\ UNCHANGED <<fn_in, clock, crawlVars, mainVars>>

SpecLinks == InitLinks /\ [][ExtractLinks]_vars

\* C19 as stated: every URL that link extraction admits, from the href scan
\* or from the rendered anchor list, is on the crawl domain, matches one of
\* the configured include patterns when there are any, and matches none of
\* the configured exclude patterns.
C19_AsStated ==
  fn_out # <<>> =>
    \A url \in fn_out[1].all_urls :
      /\ is_same_domain(url.host, fn_in[2])
      /\ config_include(fn_in[1]) # {} =>
           \E p \in config_include(fn_in[1]) : search(p, url)
      /\ \A p \in config_exclude(fn_in[1]) : ~search(p, url)

\* C19: every admitted URL is on the crawl domain. One from the href scan
\* matches a configured include pattern when there are any and no configured
\* exclude pattern; one from the rendered anchor list matches none of the
\* built-in EXCLUDE_PATTERNS, and every same-domain anchor that matches none
\* of those is admitted, whatever config.json includes or excludes.
C19_LinkFilters ==
  fn_out # <<>> =>
    /\ fn_out[1].all_urls = fn_out[1].new_urls \cup fn_out[1].js_urls
    /\ \A url \in fn_out[1].all_urls : is_same_domain(url.host, fn_in[2])
    /\ \A url \in fn_out[1].new_urls :
         /\ config_include(fn_in[1]) # {} =>
              \E p \in config_include(fn_in[1]) : search(p, url)
         /\ \A p \in config_exclude(fn_in[1]) : ~search(p, url)
    /\ \A url \in fn_out[1].js_urls :
         \A p \in EXCLUDE_PATTERNS : ~search(p, url)
    /\ \A l \in fn_in[4] :
         (/\ is_same_domain(normalize_url(l).host, fn_in[2])
          /\ \A p \in EXCLUDE_PATTERNS : ~search(p, normalize_url(l)))
           => normalize_url(l) \in fn_out[1].all_urls

\* A link that config.json excludes is in the markup and in the rendered
\* DOM: the href scan drops it, the anchor list admits it.
C19_Witness ==
  /\ fn_out # <<>>
  /\ fn_in[3] # {}
  /\ fn_in[3] = fn_in[4]
  /\ \E url \in fn_out[1].js_urls :
       /\ url \notin fn_out[1].new_urls
       /\ \E p \in config_exclude(fn_in[1]) : search(p, url)

\* -------------------------------------------------------------- CLASSIFIER
\* The error classifier of process_one as a function of the renderer's
\* answer.  A text is the set of the table's patterns it contains (the HTML is
\* lowercased first, the patterns are lowercase).
MaxTitlePatterns == 2

TitlePatterns == UNION {ErrorTable[i].patterns : i \in 1..Len(ErrorTable)}

HeadTitles == {t \in SUBSET TitlePatterns : Cardinality(t) <= MaxTitlePatterns}

\* a <title> element outside <head> (in an inline SVG, say)
StrayTitles == {{}, {"404"}, {"403", "503"}}

BodyTexts == SUBSET {"404", "403"}

\* The document: its length, whether it has <head>...</head>, the <title> in
\* there, a <title> elsewhere and whether that one starts within the first
\* 5000 characters, and the text of the body.
Htmls ==
  {h \in [len : HtmlLens, has_head : BOOLEAN, head_title : HeadTitles,
          stray_title : StrayTitles, stray_early : BOOLEAN, body : BodyTexts] :
     /\ ~h.has_head => h.head_title = {}
     /\ h.stray_title = {} => h.stray_early}

\* (variant: the patterns are looked for in the whole document)
page_title_whole_document(html) ==
  html.head_title \cup html.stray_title \cup html.body

\* _head_s is the content of <head> if there is one, else the first 5000
\* characters; _page_title is the first <title> in _head_s, else ''
page_title(html) ==
  IF html.has_head THEN html.head_title
  ELSE IF html.stray_early THEN html.stray_title
  ELSE {}

\* What process_one makes of the page: a reason, "ok", or "bridge_error".
classify(raised, html) ==
  classify_and_store(Self(1), url_to_sha(SeedUrl("d1")), SeedUrl("d1"),
                     [raised |-> raised, at |-> "none", len |-> html.len,
                      title |-> page_title(html)]).out

InitClassify ==
  /\ clock = 0
  /\ Idle
  /\ NoMain
  /\ \E raised \in BOOLEAN, html \in Htmls : fn_in = <<raised, html>>
  /\ fn_out = <<>>

ClassifyCall ==
  /\ fn_out = <<>>
  /\ fn_out' = <<classify(fn_in[1], fn_in[2])>>
  /\ UNCHANGED <<fn_in, clock, crawlVars, mainVars>>

SpecClassify == InitClassify /\ [][ClassifyCall]_vars

\* Row i of the table matches the text.
RowMatches(i, text) == ErrorTable[i].patterns \cap text # {}

\* C20: the classifier decides from the page title only, the first matching
\* row winning in the order 404, 403, 429, 500, 502, 503.  HTML longer than
\* 500 characters whose head title matches the 429 row and no earlier row is
\* 429_rate_limited whatever the body (or a title outside the head) contains;
\* with a head title matching no row the page is stored; HTML of at most
\* 500 characters obtained without a transport error is empty_response
\* whatever its title.
C20_TitleDecides ==
  fn_out # <<>> =>
    LET raised == fn_in[1]
        html == fn_in[2]
        out == fn_out[1]
    IN /\ (~raised /\ html.len > 500 /\ html.has_head) =>
            /\ (RowMatches(3, html.head_title)
                  /\ ~RowMatches(1, html.head_title)
                  /\ ~RowMatches(2, html.head_title)) => out = "429_rate_limited"
            /\ \A i \in 1..Len(ErrorTable) :
                 (RowMatches(i, html.head_title)
                    /\ \A j \in 1..(i - 1) : ~RowMatches(j, html.head_title))
                   => out = ErrorTable[i].code
            /\ (\A i \in 1..Len(ErrorTable) : ~RowMatches(i, html.head_title))
                 => out = "ok"
       /\ (~raised /\ html.len <= 500) => out = "empty_response"
       /\ <<ErrorTable[1].code, ErrorTable[2].code, ErrorTable[3].code,
            ErrorTable[4].code, ErrorTable[5].code, ErrorTable[6].code>>
            = <<"404_not_found", "403_forbidden", "429_rate_limited",
                "500_server_error", "502_bad_gateway", "503_unavailable">>

\* A page of more than 500 characters with the head title "429 - Too Many
\* Requests" and "404" in its body was classified 429_rate_limited.
C20_Witness ==
  /\ fn_out = <<"429_rate_limited">>
  /\ ~fn_in[1]
  /\ fn_in[2].len > 500
  /\ fn_in[2].has_head
  /\ fn_in[2].head_title = {"429", "too many requests"}
  /\ "404" \in fn_in[2].body

\* ------------------------------------------------------------ A FIXED SITE
\* The site answers every request with the same page: more than 500
\* characters, a title that is no error page.
SiteResponse(url) == [raised |-> FALSE, at |-> "none", len |-> 501, title |-> {}]

SiteVisit == VisitAnswering(FALSE, [url \in AllUrls |-> {SiteResponse(url)}])

\* crawl_batch against the fixed site, killed at any point between two calls
\* or inside a loop of registrations, and started again on the same ledger.
NextResume ==
  \/ DiscoverStep
  \/ WhileCheck
  \/ SiteVisit
  \/ AfterPass
  \/ CloseTabs
  \/ Kill
  \/ KilledInLinkLoop
  \/ KilledInDiscover
  \/ Restart

SpecResume == Init /\ [][NextResume]_vars

\* A DomainCrawler constructed on the ledger the operator hands over.
FreshCrawler(d) ==
  [html |-> [sha \in ShasOf(d) |->
               IF sha = url_to_sha(SeedUrl(d)) THEN EmptyFile ELSE NoFile],
   index |-> [sha \in ShasOf(d) |->
                IF sha = url_to_sha(SeedUrl(d)) THEN SeedUrl(d) ELSE NoUrl],
   failed |-> [sha \in ShasOf(d) |-> NoRecord], removed |-> {},
   pending |-> <<>>, shas |-> {}, ok |-> 0, err |-> 0,
   marked |-> {}, regd |-> {}, calls |-> {}]

\* The round-robin loop for one crawler against the fixed site: process_one
\* until the frontier is empty (process_one returns True for every entry it
\* pops, so the loop never takes its refresh branch).
RECURSIVE crawl_loop(_)
crawl_loop(S) ==
  IF S.pending = <<>> THEN S
  ELSE crawl_loop(process_one(S, SiteResponse(Head(S.pending)[2])).st)

\* The hashes Downloaded after one uninterrupted crawl from the start page.
crawled_alone(d) ==
  LET S == crawl_loop(refresh_pending(discover(FreshCrawler(d)).st))
  IN {sha \in ShasOf(d) : is_downloaded(S, sha)}

DownloadedSet(d) == {sha \in ShasOf(d) : StateOf(d, sha) = "Downloaded"}

\* C21 as stated: whatever ledger of Downloaded and Pending entries a run
\* starts from, discovery followed by the crawl loop ends with the Downloaded
\* set of one uninterrupted crawl of the same site from the start page.
C21_ResumeEqualsFreshCrawl ==
  pc = "done" => \A d \in Domains : DownloadedSet(d) = crawled_alone(d)

\* ----------------------------------------------------- THE REMOVED ARCHIVE
\* mark_failed with its timestamp and the name it gives the archived
\* placeholder, for two domains of one run whose ledgers hold the same URLs:
\* example.com and www.example.com have the same root_domain, so
\* normalize_url gives both the same canonical URLs and url_to_sha the same
\* hashes, while each has its own study directory.  Here removed_dir is the
\* archive by file name: [<<timestamp, sha>> -> the domain whose placeholder
\* the file is].
MaxClock == 2

TwinDomains == {"example.com", "www.example.com"}

\* The pages of the site both ledgers have as Pending.
TwinUrls == {31, 32}

TwinShas == {url_to_sha(u) : u \in TwinUrls}

InitArchive ==
  /\ clock = 0
  /\ html_dir = [d \in TwinDomains |-> [sha \in TwinShas |-> EmptyFile]]
  /\ index_dir = [d \in TwinDomains |->
                    [sha \in TwinShas |-> CHOOSE u \in TwinUrls : url_to_sha(u) = sha]]
  /\ failed_dir = [d \in TwinDomains |-> [sha \in TwinShas |-> NoRecord]]
  /\ removed_dir = <<>>
  /\ InitMemory
  /\ InitCrawlers
  /\ NoCall
  /\ NoMain
  /\ pc = "idle"
  /\ ci = 1
  /\ at_start = [d \in Domains |-> {}]
  /\ lastOp = PlainOp("idle", 0)

\* shutil.move(str(html_file), str(REMOVED_DIR / f"{timestamp}_{sha}.html")):
\* a file of that name in removed/ is replaced
move_to_removed(removed, d, sha, timestamp) ==
  (<<timestamp, sha>> :> d) @@ removed

\* mark_failed(sha, url, reason) of the crawler of domain d, called by
\* process_one for an entry it popped that is Pending
TwinMarkFailed ==
  /\ \E d \in TwinDomains, url \in TwinUrls, reason \in {"skipped_binary", "empty_response"} :
       LET sha == url_to_sha(url)
           timestamp == clock
       IN /\ failed_dir[d][sha] = NoRecord
          /\ html_dir[d][sha] = EmptyFile
          /\ failed_dir' = [failed_dir EXCEPT ![d][sha] = [url |-> url, reason |-> reason]]
          /\ IF html_dir[d][sha] # NoFile /\ html_dir[d][sha].size = 0
             THEN /\ html_dir' = [html_dir EXCEPT ![d][sha] = NoFile]
                  /\ removed_dir' = move_to_removed(removed_dir, d, sha, timestamp)
             ELSE UNCHANGED <<html_dir, removed_dir>>
          /\ lastOp' = Op("mark_failed", 0, url, "Pending", TRUE, TRUE, reason)
  /\ UNCHANGED <<index_dir, memoryVars, controlVars, reg_calls, mark_returned, fetch_err,
                 pass_moved, turns, at_start, batchVars, fnVars, mainVars, clock>>

\* A second goes by.
Tick ==
  /\ clock < MaxClock
  /\ clock' = clock + 1
  /\ UNCHANGED <<crawlVars, fnVars, mainVars>>

NextArchive == TwinMarkFailed \/ Tick

SpecArchive == InitArchive /\ [][NextArchive]_vars

\* C22 as stated: every zero-size placeholder that went to Failed has its own
\* entry in the removed archive, whatever domains are crawled in the run.
C22_EveryPlaceholderArchived ==
  \A d \in TwinDomains, sha \in TwinShas :
    failed_dir[d][sha] # NoRecord =>
      \E name \in DOMAIN removed_dir : name[2] = sha /\ removed_dir[name] = d

\* C23: an Index entry is written once and is immutable: once Index[hash]
\* holds a URL, no step of the crawler (discover and its register_url calls,
\* process_one with mark_failed and register_and_queue, refresh_pending, a
\* kill inside any of them, a restart) changes or removes it.
C23_IndexImmutable ==
  [][\A d \in Domains : \A sha \in ShasOf(d) :
       index_dir[d][sha] # NoUrl => index_dir'[d][sha] = index_dir[d][sha]]_vars

\* After a restart, discover has called register_url for a URL whose Index
\* entry was already there, on a Pending hash; the entry is as it was, and
\* another indexed hash of the domain has gone to Failed.
C23_Witness ==
  /\ lastOp.op = "discover"
  /\ \E call \in lastOp.calls :
       /\ call.idx
       /\ call.pre = "Pending"
       /\ index_dir[Dom(lastOp.c)][url_to_sha(call.url)] = call.url
  /\ \E sha \in ShasOf(Dom(lastOp.c)) :
       /\ failed_dir[Dom(lastOp.c)][sha] # NoRecord
       /\ index_dir[Dom(lastOp.c)][sha] # NoUrl

\* ----------------------------------------------------------- NORMALIZATION
\* normalize_url on two links of one page that have the same path.
InitNormalize ==
  /\ clock = 0
  /\ Idle
  /\ NoMain
  /\ \E u1 \in RawLinks, u2 \in RawLinks :
       /\ u1.path = u2.path
       /\ fn_in = <<u1, u2>>
  /\ fn_out = <<>>

NormalizeCall ==
  /\ fn_out = <<>>
  /\ fn_out' = <<normalize_url(fn_in[1]), normalize_url(fn_in[2])>>
  /\ UNCHANGED <<fn_in, clock, crawlVars, mainVars>>

SpecNormalize == InitNormalize /\ [][NormalizeCall]_vars

\* The bare root domain and its www. form.
RootOrWww(host) == host \in {"root", "www"}

\* Two links differ at most by fragment, query string, http vs https, and
\* bare-root vs www host.
SameUpToCanonicalForm(u1, u2) ==
  /\ u1.path = u2.path
  /\ u1.slash = u2.slash
  /\ u1.host = u2.host \/ (RootOrWww(u1.host) /\ RootOrWww(u2.host))

\* C24: with a two-label root domain such as example.com, two URLs that
\* differ only by fragment, query string, http vs https scheme or bare-root
\* vs www host normalize to the same canonical URL (hence to the same hash,
\* url_to_sha being a function of that string); the canonical URL is https,
\* without query string and fragment, its host www for the bare root, and
\* normalizing it again changes nothing.
C24_CanonicalStability ==
  fn_out # <<>> =>
    /\ SameUpToCanonicalForm(fn_in[1], fn_in[2]) => fn_out[1] = fn_out[2]
    /\ \A i \in {1, 2} :
         /\ fn_out[i].scheme = "https"
         /\ ~fn_out[i].query /\ ~fn_out[i].fragment
         /\ fn_out[i].host # "root"
         /\ fn_out[i].path = fn_in[i].path
         /\ normalize_url(fn_out[i]) = fn_out[i]

\* "http://example.com/a?x=1#f" and "https://www.example.com/a" were
\* normalized, to the same https://www.example.com/a.
C24_Witness ==
  /\ fn_out # <<>>
  /\ fn_in[1] = [scheme |-> "http", host |-> "root", path |-> <<"shop">>,
                 slash |-> FALSE, query |-> TRUE, fragment |-> TRUE]
  /\ fn_in[2] = [scheme |-> "https", host |-> "www", path |-> <<"shop">>,
                 slash |-> FALSE, query |-> FALSE, fragment |-> FALSE]
  /\ fn_out[1] = fn_in[2]
  /\ fn_out[2] = fn_in[2]

\* C25: if the rendering endpoint is unreachable when the crawler starts,
\* main ends on its diagnostic message without raising: the health check
\* never raises, the step after it either goes on to tab creation or is the
\* return, and at that return no tab was asked for, no batch thread was
\* started, no ledger and nothing else was changed, and nothing follows.
C25_UnreachableBridgeExit ==
  /\ [](main_pc # "raised")
  /\ [][main_pc = "check_bridge" =>
          \/ main_pc' = "precreate"
          \/ /\ main_pc' = "not_reachable"
             /\ UNCHANGED <<crawlVars, main_tabs, threads, site_work, tab_requests,
                            drivers, in_progress>>]_vars
  /\ [](main_pc = "not_reachable" =>
          /\ tab_requests = {}
          /\ \A d \in ArgDomains : main_tabs[d] = NoTab /\ site_work[d] = "pending"
          /\ \A t \in ThreadIds : threads[t].pc = "not_started"
          /\ \A d \in Domains : \A sha \in ShasOf(d) :
               StateOf(d, sha) = IF sha = url_to_sha(SeedUrl(d)) THEN "Pending" ELSE "Unknown")
  /\ [][main_pc # "not_reachable"]_vars

\* main was started with two domains or more and returned because the
\* bridge did not answer.
C25_Witness ==
  /\ main_pc = "not_reachable"
  /\ Len(main_domains) >= 2

\* The DomainCrawler objects of the run: crawler k of batch thread t.
CrawlerInstances ==
  {<<t, k>> : t \in ThreadIds, k \in 1..MAX_PER_BATCH} \cap
    {x \in ThreadIds \X (1..MAX_PER_BATCH) : x[2] <= Len(threads[x[1]].crawlers)}

\* C26 as stated: for any list of requested domains, no tab id is held by
\* two crawler instances of the run.
C26_NoSharedTab ==
  \A x \in CrawlerInstances, y \in CrawlerInstances :
    x # y => threads[x[1]].tabs[x[2]] # threads[y[1]].tabs[y[2]]

\* process_one is about to pop, for the member whose turn it is, an entry
\* the ledger has as Pending.
PopsPending ==
  /\ pc = "for"
  /\ has_pending(crawlers[ci])
  /\ StateOf(Dom(crawlers[ci]), Head(pending[crawlers[ci]])[1]) = "Pending"

\* What the last process_one left behind for the entry it popped: the hash
\* is Downloaded or Failed; a Failure record carries the reason of the
\* outcome; a stored page carries the provenance comment of its URL ahead of
\* the HTML, and every link extracted from it is Downloaded, Failed, or
\* Pending with its Index entry and on the frontier.
SettledByLastOp ==
  LET c == lastOp.c
      d == Dom(c)
      url == lastOp.url
      sha == url_to_sha(url)
      out == lastOp.out
  IN /\ StateOf(d, sha) \in {"Downloaded", "Failed"}
     /\ out = "ok" <=> StateOf(d, sha) = "Downloaded"
     /\ out # "ok" =>
          /\ failed_dir[d][sha] = [url |-> url, reason |-> out]
          /\ sha \in mark_returned[d]
          /\ out \in {"empty_response", "skipped_binary"}
               \cup {ErrorTable[i].code : i \in 1..Len(ErrorTable)}
     /\ out = "ok" =>
          /\ html_dir[d][sha].url = url
          /\ html_dir[d][sha].size > 500 + ProvenanceLen(url)
          /\ \A u \in StaticLinks(url) \cup JsLinks(url) :
               \/ StateOf(d, url_to_sha(u)) \in {"Downloaded", "Failed"}
               \/ /\ StateOf(d, url_to_sha(u)) = "Pending"
                  /\ index_dir[d][url_to_sha(u)] = u
                  /\ \E k \in 1..Len(pending[c]) : pending[c][k] = <<url_to_sha(u), u>>

\* C27: a process_one call that pops a Pending entry and whose renderer
\* calls do not end in a transport error leaves the hash Downloaded or Failed,
\* never Pending: mark_failed has been called for a classified error and for
\* an empty response, and otherwise the HTML is in html/ behind the
\* provenance comment and the extracted links have been offered to the
\* frontier.
C27_FetchSettlesHash ==
  [][(PopsPending /\ lastOp'.out \notin {"bridge_error", "exception"}) =>
       /\ lastOp'.op = "process_one"
       /\ lastOp'.c = crawlers[ci]
       /\ lastOp'.url = Head(pending[crawlers[ci]])[2]
       /\ url_to_sha(lastOp'.url) = Head(pending[crawlers[ci]])[1]
       /\ SettledByLastOp']_vars

\* A page was fetched and stored, and a link extracted from it is on the
\* frontier; another page of the batch went to Failed as an error page.
C27_Witness ==
  /\ lastOp.op = "process_one"
  /\ lastOp.out = "ok"
  /\ lastOp.pre = "Pending"
  /\ StateOf(Dom(lastOp.c), url_to_sha(lastOp.url)) = "Downloaded"
  /\ \E u \in JsLinks(lastOp.url) : InFrontier(lastOp.c, url_to_sha(u))
  /\ \E d \in Domains : \E sha \in ShasOf(d) : failed_dir[d][sha].reason = "404_not_found"

\* The for loop goes on to the next member of the batch, or the pass is over.
Advances ==
  IF ci < NumCrawlers THEN pc' = "for" /\ ci' = ci + 1
  ELSE pc' = "after_for" /\ ci' = 1

\* C28: round-robin inside a batch.  In a pass of the batch loop the member
\* that is visited with a non-empty frontier performs exactly one process_one
\* and the loop goes on to the next member in batch order (or the exception
\* of the call unwinds the batch); a member visited with an empty frontier
\* performs none.  So when a member performs a process_one after an earlier
\* one of its own, every other member has performed exactly one in between,
\* or none and then its frontier is empty.
C28_RoundRobinFairness ==
  [][pc = "for" =>
       LET c == crawlers[ci]
       IN /\ (active[c] /\ Len(pending[c]) > 0) =>
               /\ lastOp'.op = "process_one" /\ lastOp'.c = c
               /\ turns'[c][c] = 1
               /\ pc' = "aborted" \/ Advances
               /\ turns[c][c] = 1 =>
                    \A i \in 1..NumCrawlers :
                      crawlers[i] # c =>
                        \/ turns[c][crawlers[i]] = 1
                        \/ /\ turns[c][crawlers[i]] = 0
                           /\ Len(pending[crawlers[i]]) = 0
          /\ ~(active[c] /\ Len(pending[c]) > 0) =>
               /\ lastOp'.op = "skip"
               /\ turns' = turns
               /\ Advances]_vars

\* The first member performs a process_one again after the second member
\* performed one; and, in another pass, after the second member was found
\* with nothing on its frontier.
C28_Witness ==
  /\ NumCrawlers = 2
  /\ lastOp.op = "process_one"
  /\ lastOp.c = crawlers[1]
  /\ pc = "for" /\ ci = 2
  /\ total_ok[crawlers[1]] + total_errors[crawlers[1]] >= 2
  /\ total_ok[crawlers[2]] + total_errors[crawlers[2]] >= 1
  /\ turns[crawlers[2]][crawlers[1]] = 1

\* q is p with k entries taken from its head and some entries put at its end.
PoppedAndAppended(p, q, k) ==
  /\ Len(p) >= k
  /\ Len(q) >= Len(p) - k
  /\ \A i \in 1..(Len(p) - k) : q[i] = p[i + k]

\* refresh_pending is what the step runs: after discover, and after a pass
\* without progress.
RefreshStep == pc = "discover" \/ (pc = "after_for" /\ ~progress)

\* C29: within one domain the frontier is first in, first out.  Between two
\* refreshes of the frontier a process_one takes the entry at the head of
\* pending, which is the one it works on, the entries behind it keep their
\* order, and new entries go behind all of them; no other step touches
\* pending.  So entries are popped in the order in which they were appended,
\* and no entry is fetched while one appended before it is on the frontier.
C29_FrontierIsFifo ==
  [][~RefreshStep =>
       \A c \in Crawlers :
         IF pc = "for" /\ c = crawlers[ci] /\ Len(pending[c]) > 0 /\ active[c]
         THEN /\ lastOp'.op = "process_one"
              /\ lastOp'.c = c
              /\ lastOp'.url = Head(pending[c])[2]
              /\ PoppedAndAppended(pending[c], pending'[c], 1)
              /\ \A i \in 1..Len(pending'[c]) : \A j \in 1..Len(pending'[c]) :
                   pending'[c][i][1] = pending'[c][j][1] => i = j
         ELSE pending'[c] = pending[c]]_vars

\* Two links of a stored page went onto the frontier; process_one has
\* fetched one of them, and the other is now at the head of pending.
C29_Witness ==
  /\ lastOp.op = "process_one"
  /\ Fetched(lastOp.out)
  /\ Len(pending[lastOp.c]) >= 1
  /\ \E v \in AllUrls \ {lastOp.url} :
       /\ url_to_sha(v) \in ShasOf(Dom(lastOp.c))
       /\ StateOf(Dom(lastOp.c), url_to_sha(v)) = "Downloaded"
       /\ lastOp.url \in StaticLinks(v) \cup JsLinks(v)
       /\ Head(pending[lastOp.c])[2] \in (StaticLinks(v) \cup JsLinks(v)) \ {lastOp.url}

\* The round-robin loop of the batch is running, or has ended.
InLoop == pc \in {"while", "for", "after_for", "close"}

\* C30: exhausted is absorbing within a batch run.  Once the frontier of a
\* member is empty in the round-robin loop, it stays empty, the member
\* performs no process_one, and the html/, INDEX/ and FAILED/ of its domain
\* are not written again, whatever steps the other members take.
C30_ExhaustedIsAbsorbing ==
  [][\A i \in 1..NumCrawlers :
       LET c == crawlers[i]
       IN (InLoop /\ Len(pending[c]) = 0) =>
            /\ pending'[c] = <<>>
            /\ ~(lastOp'.op = "process_one" /\ lastOp'.c = c)
            /\ html_dir'[Dom(c)] = html_dir[Dom(c)]
            /\ index_dir'[Dom(c)] = index_dir[Dom(c)]
            /\ failed_dir'[Dom(c)] = failed_dir[Dom(c)]]_vars

\* The first member's frontier is empty, with an entry of its ledger still
\* Pending after a transport error, and the second member has just stored a
\* page.
C30_Witness ==
  /\ NumCrawlers = 2
  /\ InLoop
  /\ pending[crawlers[1]] = <<>>
  /\ \E sha \in ShasOf(Dom(crawlers[1])) : StateOf(Dom(crawlers[1]), sha) = "Pending"
  /\ turns[crawlers[1]][crawlers[2]] >= 1
  /\ lastOp.op = "process_one"
  /\ lastOp.c = crawlers[2]
  /\ lastOp.out = "ok"

\* ------------------------------------------------ the try block, call by call
\* for _ in range(30)
PollLimit == 30

\* What one evaluate("document.readyState") does: a value, or an exception.
PollAnswers == {"loading", "complete", "raise"}

\* The try block of process_one before cdp.navigate(url): the renderer call
\* it is at, the polls made, the last readyState read, whether a poll's
\* exception was swallowed, what was read, and bridge_error.
TryStart ==
  [at |-> "navigate", polls |-> 0, state |-> "none", swallowed |-> FALSE,
   links_read |-> FALSE, html_read |-> FALSE, bridge_error |-> FALSE]

\* except Exception as e: html = ""; js_links_raw = "[]"; bridge_error = True
outer_except(t) ==
  [t EXCEPT !.at = "after_try", !.links_read = FALSE, !.html_read = FALSE,
            !.bridge_error = TRUE]

\* (variant: an exception of a poll reaches the outer except)
poll_once_unguarded(t, answer) ==
  LET t1 == [t EXCEPT !.polls = @ + 1]
      on == IF t1.polls = PollLimit THEN "links" ELSE "poll"
  IN IF answer = "raise" THEN outer_except(t1)
     ELSE IF answer = "complete" THEN [t1 EXCEPT !.state = answer, !.at = "links"]
     ELSE [t1 EXCEPT !.state = answer, !.at = on]

\* One turn of the poll loop: time.sleep(0.3); try: state = evaluate(...);
\* if state == "complete": break; except Exception: continue
poll_once(t, answer) ==
  LET t1 == [t EXCEPT !.polls = @ + 1]
      on == IF t1.polls = PollLimit THEN "links" ELSE "poll"
  IN IF answer = "raise" THEN [t1 EXCEPT !.swallowed = TRUE, !.at = on]
     ELSE IF answer = "complete" THEN [t1 EXCEPT !.state = answer, !.at = "links"]
     ELSE [t1 EXCEPT !.state = answer, !.at = on]

InitPoll ==
  /\ clock = 0
  /\ Idle
  /\ NoMain
  /\ fn_in = <<"try">>
  /\ fn_out = <<TryStart>>

\* self.cdp.navigate(url)
Navigate ==
  /\ fn_out[1].at = "navigate"
  /\ \E raises \in BOOLEAN :
       fn_out' = <<IF raises THEN outer_except(fn_out[1])
                   ELSE [fn_out[1] EXCEPT !.at = "poll"]>>
  /\ UNCHANGED <<fn_in, clock, crawlVars, mainVars>>

PollOnce ==
  /\ fn_out[1].at = "poll"
  /\ \E answer \in PollAnswers : fn_out' = <<poll_once(fn_out[1], answer)>>
  /\ UNCHANGED <<fn_in, clock, crawlVars, mainVars>>

\* time.sleep(max(self.extra_sleep, 2.0)); js_links_raw = self.cdp.evaluate(...)
ReadLinks ==
  /\ fn_out[1].at = "links"
  /\ \E raises \in BOOLEAN :
       fn_out' = <<IF raises THEN outer_except(fn_out[1])
                   ELSE [fn_out[1] EXCEPT !.at = "get_html", !.links_read = TRUE]>>
  /\ UNCHANGED <<fn_in, clock, crawlVars, mainVars>>

\* html = self.cdp.get_html() or ""
GetHtml ==
  /\ fn_out[1].at = "get_html"
  /\ \E raises \in BOOLEAN :
       fn_out' = <<IF raises THEN outer_except(fn_out[1])
                   ELSE [fn_out[1] EXCEPT !.at = "after_try", !.html_read = TRUE]>>
  /\ UNCHANGED <<fn_in, clock, crawlVars, mainVars>>

NextPoll == Navigate \/ PollOnce \/ ReadLinks \/ GetHtml

SpecPoll == InitPoll /\ [][NextPoll]_vars

\* C31: the readiness poll is bounded and never blocks the fetch.  After
\* navigate at most 30 polls are made; the poll that reports complete is the
\* last one; when the polls end, with or without complete, the link query is
\* next and then get_html; and the exception of a poll is swallowed: it
\* neither sets bridge_error nor ends the try block.
C31_PollBoundedAndSwallowed ==
  /\ [](fn_out[1].polls <= PollLimit)
  /\ [](fn_out[1].at = "poll" => fn_out[1].polls < PollLimit /\ fn_out[1].state # "complete")
  /\ [][fn_out[1].at = "poll" =>
          /\ fn_out'[1].polls = fn_out[1].polls + 1
          /\ fn_out'[1].at \in {"poll", "links"}
          /\ ~fn_out'[1].bridge_error
          /\ fn_out'[1].at = "links" <=>
               (fn_out'[1].state = "complete" \/ fn_out'[1].polls = PollLimit)]_vars
  /\ [][fn_out[1].at = "links" => fn_out'[1].at \in {"get_html", "after_try"}]_vars
  /\ []((fn_out[1].at = "after_try" /\ ~fn_out[1].bridge_error) =>
          fn_out[1].links_read /\ fn_out[1].html_read)
  /\ [](fn_out[1].at = "links" => ENABLED ReadLinks)

\* Thirty polls, none of which reported complete and one of which raised; the
\* links and the HTML were read and there is no transport error.
C31_Witness ==
  /\ fn_out[1].at = "after_try"
  /\ fn_out[1].polls = PollLimit
  /\ fn_out[1].state = "loading"
  /\ fn_out[1].swallowed
  /\ fn_out[1].links_read /\ fn_out[1].html_read
  /\ ~fn_out[1].bridge_error

\* C32: discovery only adds Pending entries.  The register_url calls of a
\* discover are for links found in the stored HTML of files of more than 100
\* bytes; the step makes no renderer call; FAILED/ and the archive stay as
\* they are, and so do the ledgers of the other domains; a file of html/
\* that exists keeps its content and an Index entry that exists keeps its
\* URL; what is new is a zero-size placeholder, or the Index entry of a hash
\* that has its placeholder.
C32_DiscoverOnlyAddsPending ==
  [][(pc = "discover" /\ lastOp'.op = "discover") =>
       LET d == Dom(crawlers[ci])
       IN /\ \A call \in lastOp'.calls :
               \E s \in ShasOf(d) :
                 /\ html_dir[d][s].size > 100
                 /\ call.url \in StaticLinks(html_dir[d][s].url)
          /\ renderer_log' = renderer_log
          /\ failed_dir' = failed_dir
          /\ removed_dir' = removed_dir
          /\ \A o \in Domains \ {d} :
               html_dir'[o] = html_dir[o] /\ index_dir'[o] = index_dir[o]
          /\ \A sha \in ShasOf(d) :
               /\ html_dir[d][sha] # NoFile => html_dir'[d][sha] = html_dir[d][sha]
               /\ html_dir'[d][sha] \in {html_dir[d][sha], EmptyFile}
               /\ index_dir[d][sha] # NoUrl => index_dir'[d][sha] = index_dir[d][sha]
               /\ index_dir'[d][sha] # index_dir[d][sha] =>
                    /\ url_to_sha(index_dir'[d][sha]) = sha
                    /\ html_dir'[d][sha] # NoFile
                    /\ StateOf(d, sha) \notin {"Downloaded", "Failed"}]_vars

\* A discover read a stored page and registered a link of it that the ledger
\* did not know, while FAILED/ of the other domain holds a record.
C32_Witness ==
  /\ lastOp.op = "discover"
  /\ \E call \in lastOp.calls :
       /\ call.pre = "Unknown" /\ call.ret
       /\ StateOf(Dom(lastOp.c), url_to_sha(call.url)) = "Pending"
  /\ \E call \in lastOp.calls : call.pre = "Downloaded" /\ ~call.ret
  /\ \E d \in Domains : \E sha \in ShasOf(d) : StateOf(d, sha) = "Failed"

\* The pages other than url whose download offers url to the frontier.
LinkingPages(url) ==
  {v \in UrlsOf(DomainOfUrl(url)) \ {url} : url \in StaticLinks(v) \cup JsLinks(v)}

\* C33: the batch loop terminates.  Whatever the renderer answers, a
\* transport error on every fetch included, crawl_batch comes to its end; the
\* number of fetches is bounded, a URL being fetched once and then once more
\* for each page whose download offers it again; and at the tab-release step
\* the frontier of every member is empty.
C33_BatchLoopTerminates ==
  /\ <>(pc \in {"done", "returned"})
  /\ [](\A u \in AllUrls : Len(renderer_log[u]) <= 1 + Cardinality(LinkingPages(u)))
  /\ [](pc \in {"close", "done"} => \A i \in 1..NumCrawlers : pending[crawlers[i]] = <<>>)
  /\ [][pc = "close" => pc' = "done"]_vars
  /\ [](pc = "returned" => crawlers = <<>>)

\* The batch of two members is over; every fetch of the first member raised a
\* transport error, its start page is still Pending, and both frontiers are
\* empty.
C33_Witness ==
  /\ pc = "done"
  /\ NumCrawlers = 2
  /\ renderer_log[SeedUrl("d1")] = <<"raised">>
  /\ \A u \in UrlsOf("d1") : \A k \in 1..Len(renderer_log[u]) : renderer_log[u][k] = "raised"
  /\ StateOf("d1", url_to_sha(SeedUrl("d1"))) = "Pending"
  /\ \E u \in UrlsOf("d2") : Len(renderer_log[u]) >= 1
  /\ \A i \in 1..NumCrawlers : pending[crawlers[i]] = <<>>

\* C34: the batch results are aggregated without a race on the slots.  A
\* slot of all_results is written by the thread of its own batch only, and
\* at most once; when main goes on behind the joins, to read all_results and
\* print the summary, every batch thread is over, and no slot is written
\* from then on.
C34_ResultSlotsWithoutRace ==
  /\ [](\A slot \in DOMAIN all_results :
          /\ Len(all_results[slot]) <= 1
          /\ \A k \in 1..Len(all_results[slot]) : all_results[slot][k].by = slot)
  /\ [](main_pc = "done" => \A t \in ThreadIds : threads[t].pc = "ended")
  /\ [][main_pc = "done" => all_results' = all_results]_vars
  /\ [][\A t \in ThreadIds :
          all_results'[t] # all_results[t] =>
            /\ threads[t].pc = "returned"
            /\ threads'[t].pc = "ended"
            /\ main_pc \in {"start", "join"}]_vars

\* main is behind the joins of two batch threads; each slot holds the one
\* result of its batch, the crawlers of the first batch among them.
C34_Witness ==
  /\ main_pc = "done"
  /\ Len(MainBatches) = 2
  /\ \A t \in ThreadIds :
       /\ Len(all_results[t]) = 1
       /\ all_results[t][1] = [by |-> t, crawlers |-> threads[t].crawlers]
  /\ all_results[1][1].crawlers # <<>>
  /\ all_results[2][1].crawlers = <<>>

\* The hashes of the entries of a frontier.
HashesOf(q) == {q[i][1] : i \in 1..Len(q)}

\* C35: the frontier never holds a hash twice and its dedup set mirrors it.
\* After every step (each is a whole register_and_queue loop of a
\* process_one, a refresh_pending, or leaves the frontier alone) no two
\* entries of pending have the same hash, each entry pairs a URL with its
\* hash, and pending_shas is the set of the hashes of the entries.
C35_DedupSetMirrorsFrontier ==
  \A c \in Crawlers :
    /\ \A i \in 1..Len(pending[c]) : \A j \in 1..Len(pending[c]) :
         pending[c][i][1] = pending[c][j][1] => i = j
    /\ \A i \in 1..Len(pending[c]) : pending[c][i][1] = url_to_sha(pending[c][i][2])
    /\ pending_shas[c] = HashesOf(pending[c])

\* A page was stored and its links were offered to the frontier, which now
\* holds two entries, a link of the page at its head, and as many hashes in
\* the dedup set.
C35_Witness ==
  /\ lastOp.op = "process_one"
  /\ lastOp.out = "ok"
  /\ Len(pending[lastOp.c]) >= 2
  /\ \E u \in StaticLinks(lastOp.url) \ {lastOp.url} :
       /\ Head(pending[lastOp.c]) = <<url_to_sha(u), u>>
       /\ url_to_sha(u) \in pending_shas[lastOp.c]
  /\ Cardinality(pending_shas[lastOp.c]) = Len(pending[lastOp.c])

\* At the end of crawl_batch: member m of the batch has, in its domain's
\* ledger, every hash Unknown, Downloaded or Failed, or Pending with the
\* most recent fetch of the run a transport error; and whatever was fetched
\* is known to the ledger.
SettledAtEnd(m) ==
  \A sha \in ShasOf(Dom(m)) :
    /\ \/ StateOf(Dom(m), sha) \in {"Unknown", "Downloaded", "Failed"}
       \/ StateOf(Dom(m), sha) = "Pending" /\ sha \in fetch_err[m]
    /\ sha \in fetch_err[m] => index_dir[Dom(m)][sha] # NoUrl

\* C36 as stated: at the end of a batch run every hash of a member domain
\* that is still Pending is one whose most recent fetch attempt of the run
\* ended in a transport error, and every other hash is Downloaded or Failed.
C36_AsStated ==
  pc \in {"close", "done", "returned"} =>
    \A m \in 1..Len(batch_domains) : SettledAtEnd(m)

\* C36: at the end of a batch run that started from a ledger in which every
\* Content entry has its Index entry, every hash of a member that obtained a
\* tab (a crawler of the batch) that is still Pending is one whose most
\* recent fetch attempt of the run ended in a transport error, and every
\* other hash that was on its frontier is Downloaded or Failed.
C36_PendingOnlyAfterTransportError ==
  pc \in {"close", "done"} =>
    \A i \in 1..NumCrawlers : SettledAtEnd(crawlers[i])

\* The batch is over: the first member obtained a tab, stored a page and has
\* a hash Pending after a transport error; the second member obtained no
\* tab and its start page is Pending as it was.
C36_Witness ==
  /\ pc = "done"
  /\ batch_domains = <<"d1", "d2">>
  /\ crawlers = <<1>>
  /\ \E sha \in ShasOf("d1") : StateOf("d1", sha) = "Downloaded"
  /\ \E sha \in fetch_err[1] : StateOf("d1", sha) = "Pending"
  /\ StateOf("d2", url_to_sha(SeedUrl("d2"))) = "Pending"
  /\ fetch_err[2] = {}

\* The hashes of a domain that the ledger has in a state.  (A batch run
\* starts from a ledger without Downloaded and Failed hashes, so at its end
\* these are the hashes the run moved there.)
HashesIn(d, state) == {sha \in ShasOf(d) : StateOf(d, sha) = state}

\* C37: the counters of the summary match the ledger transitions of the run.
\* When the batch ends, total_ok of a crawler is the number of hashes of its
\* domain that the run moved from Pending to Downloaded, and total_errors the
\* number it moved from Pending to Failed, whatever the reason.
C37_CountersMatchLedger ==
  pc = "done" =>
    \A i \in 1..NumCrawlers :
      /\ total_ok[crawlers[i]] = Cardinality(HashesIn(Dom(crawlers[i]), "Downloaded"))
      /\ total_errors[crawlers[i]] = Cardinality(HashesIn(Dom(crawlers[i]), "Failed"))

\* (variant: the offset of a batch is its index times the size of the first)
thread_offsets_by_first_size(batches, t, domain_offset) ==
  [k \in 1..Len(batches) |-> (k - 1) * Len(batches[1])]

\* main: domain_offset = 0; for batch_idx, batch in enumerate(batches):
\* Thread(args=(batch_idx, batch, domain_offset)); domain_offset += len(batch)
\* -- the offsets given to the threads of batches t .. Len(batches)
RECURSIVE thread_offsets(_, _, _)
thread_offsets(batches, t, domain_offset) ==
  IF t > Len(batches) THEN <<>>
  ELSE <<domain_offset>> \o thread_offsets(batches, t + 1, domain_offset + Len(batches[t]))

\* C38: split_into_batches loses, duplicates and reorders nothing.  For every
\* domain list and every max_per_batch >= 1 the returned batches, put
\* together in order, are the input list; every position of the input is
\* position i of batch t for exactly one t and i; and the domain_offset main
\* passes with batch t is the (0-based) index in the input of the first
\* domain of the batch.
C38_SplitKeepsTheList ==
  Len(fn_out) = 1 =>
    LET domains == fn_in[1]
        batches == fn_out[1]
        offsets == thread_offsets(batches, 1, 0)
        places == {<<t, i>> \in (1..Len(batches)) \X (1..Len(domains)) : i <= Len(batches[t])}
    IN /\ Flatten(batches) = domains
       /\ Len(offsets) = Len(batches)
       /\ \A tk \in places : batches[tk[1]][tk[2]] = domains[offsets[tk[1]] + tk[2]]
       /\ \A p \in 1..Len(domains) :
            Cardinality({tk \in places : offsets[tk[1]] + tk[2] = p}) = 1
       /\ \A t \in 1..Len(batches) :
            /\ offsets[t] = SumSeq(SubSeq(BatchSizes(batches), 1, t - 1))
            /\ batches[t] # <<>> => domains[offsets[t] + 1] = batches[t][1]

\* Thirteen domains with max_per_batch 4: four batches, which main gives the
\* offsets 0, 4, 7 and 10.
C38_Witness ==
  /\ Len(fn_out) = 1
  /\ Len(fn_in[1]) = 13
  /\ fn_in[2] = 4
  /\ BatchSizes(fn_out[1]) = <<4, 3, 3, 3>>
  /\ thread_offsets(fn_out[1], 1, 0) = <<0, 4, 7, 10>>
  /\ fn_out[1][3] = <<8, 9, 10>>

====
